---- MODULE Spec2Model ----
(***************************************************************************)
(* Create-or-upload composite operations of the Confluence and Jira MCP    *)
(* servers (utils.py of each source and the upload-and-ingest tools of     *)
(* confluence_mcp.py / jira_mcp.py).                                       *)
(*                                                                         *)
(* One tool call is a process whose position `op.pc` is the external call  *)
(* it is about to make.  An action is that call (its outcome chosen by the *)
(* external system) together with all the local code that runs until the   *)
(* next external call.  Strings that the code inspects (error texts, file  *)
(* names, status lines) are sequences of tokens; `x in s` of the source is *)
(* Contains(s, x).                                                         *)
(*                                                                         *)
(* The same variables carry the specifications: Spec (one tool call and    *)
(* its repetition), SpecIngest (the scan of long ingestion streams),       *)
(* SpecRetry (repeated composite calls while others file issues), SpecApi  *)
(* (startup and POST /chat of api_server.py), SpecSerialize (one call of   *)
(* save_response_to_file), SpecSave (chat turns and their transcript       *)
(* files), SpecBatch (the download-and-ingest tools of Confluence,         *)
(* SharePoint and local_pdf) and SpecRunner (run_all_servers.py).          *)
(***************************************************************************)
EXTENDS Integers, Sequences, FiniteSets, TLC

\* ------------------------------------------------------------------ bounds
MaxRuns == 2        \* tool calls made one after the other with the same arguments
MaxStream == 2      \* status lines the ingestion collaborator yields at most
MaxScan == 4        \* the same, in the runs that look at the scan of the stream
MaxOthers == 5      \* issues that mention the summary, filed by others between two calls
MaxRequests == 2    \* POST /chat requests handled
MaxTranscript == 2  \* messages of a turn after the user's message
MaxItems == 2       \* messages of a response handed to save_response_to_file
MaxFiles == 2       \* attachments of a content item, file names of a batch request

\* ------------------------------------------------------- program constants
ConfluenceMaxSize == 25 * 1024 * 1024
JiraMaxSize == 10 * 1024 * 1024
KeepMessages == 3
SearchMaxResults == 5

\* ------------------------------------------------------------ string model
\* str.lower() on one token
Lower(t) ==
  CASE t = "Not" -> "not"
    [] t = "Found" -> "found"
    [] t = "File" -> "file"
    [] t = "Page" -> "page"
    [] t = "Content" -> "content"
    [] t = "Issue" -> "issue"
    [] t = "Upload" -> "upload"
    [] t = "Space" -> "space"
    [] t = "Project" -> "project"
    [] t = "Failed" -> "failed"
    [] t = "Client" -> "client"
    [] t = "Server" -> "server"
    [] t = "Error" -> "error"
    [] t = "Fix" -> "fix"
    [] t = "PROJ" -> "proj"
    [] t = "NewPage" -> "newpage"
    [] t = "P" -> "p"
    [] t = "D" -> "d"
    [] t = "F" -> "f"
    [] t = "R" -> "r"
    [] OTHER -> t

LowerSeq(s) == [i \in 1..Len(s) |-> Lower(s[i])]

\* needle in s
Contains(s, needle) ==
  \E i \in 1..(Len(s) - Len(needle) + 1) : SubSeq(s, i, i + Len(needle) - 1) = needle

\* s.rfind(c): the last index of c in s, 0 when absent
RFind(s, c) ==
  IF \E i \in 1..Len(s) : s[i] = c
  THEN CHOOSE i \in 1..Len(s) : s[i] = c /\ \A j \in (i+1)..Len(s) : s[j] # c
  ELSE 0

\* pathlib.PurePath.suffix of a final path component given as characters
Suffix(name) ==
  LET i == RFind(name, ".")
  IN IF 1 < i /\ i < Len(name) THEN SubSeq(name, i, Len(name)) ELSE <<>>

\* 'pdf' in name.lower() instead of the suffix
IsPdf_InName(name) == Contains(LowerSeq(name), <<"p", "d", "f">>)

IsPdf(name) == LowerSeq(Suffix(name)) = <<".", "p", "d", "f">>

\* seq[-n:]
LastN(s, n) == IF Len(s) <= n THEN s ELSE SubSeq(s, Len(s) - n + 1, Len(s))

\* ------------------------------------------------------------------ inputs
NoId == <<>>
PageTitle == <<"NewPage">>
PageP1 == [id |-> <<"p1">>, title |-> PageTitle]
PageEnv == [id |-> <<"p7">>, title |-> PageTitle]
PageNew(n) == [id |-> <<"p9", ToString(n)>>, title |-> PageTitle]

KeyArg == <<"PROJ", "-", "123">>
SummaryArg == <<"fix", "login">>
DashArg == <<"e2e", "-", "tests">>
IssueI1 == [id |-> KeyArg, title |-> <<"Fix", "login">>]
IssueEnv(t) == [id |-> <<"PROJ", "-", "200">>, title |-> t]
IssueNew(n, t) == [id |-> <<"PROJ", "-", "30", ToString(n)>>, title |-> t]
\* the k-th issue filed by others after call n; its summary mentions t
IssueOther(n, k, t) ==
  [id |-> <<"PROJ", "-", "30", ToString(n), ToString(k)>>, title |-> t \o <<"again">>]

\* the order in which the issues were created
Digit(d) == CHOOSE n \in 0..9 : ToString(n) = d
Created(id) ==
  CASE Len(id) = 3 -> IF id[3] = "123" THEN 1230 ELSE 2000
    [] Len(id) = 4 -> 10 * (300 + Digit(id[4]))
    [] OTHER -> 10 * (300 + Digit(id[4])) + Digit(id[5])

\* project = P AND text ~ "summary" ORDER BY created DESC, maxResults 5
SearchResult(ts, summary) ==
  LET m == {t \in ts : Contains(LowerSeq(t.title), LowerSeq(summary))}
  IN {t \in m : Cardinality({u \in m : Created(u.id) > Created(t.id)}) < SearchMaxResults}

FileNames ==
  { <<"r", ".", "p", "d", "f">>, <<"R", ".", "P", "D", "F">>,
    <<"d", ".", "p", "n", "g">>, <<".", "p", "d", "f">> }
FileSizes ==
  { 1, JiraMaxSize, JiraMaxSize + 1, ConfluenceMaxSize, ConfluenceMaxSize + 1 }

ConfluenceTools ==
  { "upload_file_to_content", "upload_file_to_page_by_title",
    "create_page_and_upload_file", "upload_file_to_page_or_create",
    "upload_and_ingest_file_to_content", "upload_and_ingest_file_to_page_by_title",
    "create_page_and_upload_and_ingest_file", "upload_and_ingest_file_to_page_or_create" }
JiraTools ==
  { "upload_file_to_issue", "create_issue_and_upload_file", "upload_file_to_issue_or_create",
    "upload_and_ingest_file_to_issue", "create_issue_and_upload_and_ingest_file",
    "upload_and_ingest_file_to_issue_or_create" }

\* the utils method a tool calls first
Entry(t) ==
  CASE t \in {"upload_file_to_content", "upload_and_ingest_file_to_content",
              "upload_file_to_issue", "upload_and_ingest_file_to_issue"} -> "direct"
    [] t \in {"upload_file_to_page_by_title", "upload_and_ingest_file_to_page_by_title"} -> "by_title"
    [] t \in {"create_page_and_upload_file", "create_page_and_upload_and_ingest_file",
              "create_issue_and_upload_file", "create_issue_and_upload_and_ingest_file"} -> "create"
    [] OTHER -> "or_create"

WithIngest(t) ==
  t \in { "upload_and_ingest_file_to_content", "upload_and_ingest_file_to_page_by_title",
          "create_page_and_upload_and_ingest_file", "upload_and_ingest_file_to_page_or_create",
          "upload_and_ingest_file_to_issue", "create_issue_and_upload_and_ingest_file",
          "upload_and_ingest_file_to_issue_or_create" }

\* str(e) of the exceptions the HTTP client raises
E404 == <<"404", "Client", "Error", ":", "Not", "Found">>
E500 == <<"500", "Server", "Error">>
E400 == <<"400", "Client", "Error", ":", "Bad", "Request">>
ExcTexts == {E404, E500}
\* the external call returned / returned nothing usable
Ok == <<"ok">>
Empty == <<"empty">>

\* status lines of process_pdf_and_stream
LineAdded == <<"Added", "12", "chunks">>
LineAlready == <<"already", "ingested">>
LineError == <<"Error", "reading", "file">>
LineInfo == <<"Processing", "page">>
Lines == {LineAdded, LineAlready, LineError, LineInfo}
\* a line with a success marker and "Error"
LineMixed == <<"Added", "0", "chunks", ";", "Error", "storing", "vectors">>
ScanLines == Lines \cup {LineMixed}

\* ------------------------------------------------------------------- state
VARIABLES
  inp,         \* the tool call: src, tool, arg, file name and size, cleanup_after_ingest
  scopeOk,     \* the space / project exists and is accessible
  targets,     \* pages with the title in the space / issues of the project
  fileExists,  \* the local file is on disk
  envDone,     \* the other actor has created its target
  run,         \* number of the current tool call
  op,          \* the running tool call: position, locals, results, history
  supervisor,          \* api_server.supervisor: None or the compiled graph
  agents_initialized,  \* api_server.agents_initialized
  boot,        \* initialize_agents: position, polling time, endpoints, agents
  chat,        \* the POST /chat request being handled, and its reply
  calls,       \* the calls of supervisor.ainvoke: session, input, whether answered
  save,        \* the running call of save_response_to_file
  files,       \* the responses directory: path, the turn that wrote it, its content
  saved,       \* the transcript files written so far: turn and path
  batch,       \* the running download-and-ingest tool call
  dir,         \* its download directory: whether it exists, the files it holds
  runner       \* run_all_servers.py: position, the processes, running_processes

vars == <<inp, scopeOk, targets, fileExists, envDone, run, op,
          supervisor, agents_initialized, boot, chat, calls, save, files, saved,
          batch, dir, runner>>


\* ----------------------------------------------------------------- results
\* a dict returned by a utils method: 'success', 'error', the created flag
\* ('page_created' / 'issue_created'), 'page_already_existed', the target id
\* ('content_id' / 'page_id' / 'issue_key' / 'existing_page'.'id') and the
\* nested 'upload_result'
Fail(err, id) ==
  [success |-> FALSE, error |-> err, created |-> "absent", existed |-> FALSE,
   target_id |-> id, nested |-> FALSE, nested_error |-> <<>>]
Success(id) ==
  [success |-> TRUE, error |-> <<>>, created |-> "absent", existed |-> FALSE,
   target_id |-> id, nested |-> FALSE, nested_error |-> <<>>]
NoResult == Fail(<<>>, NoId)

\* the 'ingestion_result' of a tool's dict: key absent, None, or a dict
IngestionAbsent == [kind |-> "absent", processed |-> 0, skipped |-> 0, error |-> <<>>, messages |-> <<>>]
IngestionNone == [kind |-> "None", processed |-> 0, skipped |-> 0, error |-> <<>>, messages |-> <<>>]
IngestionSkipped == [kind |-> "dict", processed |-> 0, skipped |-> 1, error |-> <<>>, messages |-> <<>>]
IngestionFailed(err, msgs) ==
  [kind |-> "dict", processed |-> 0, skipped |-> 0, error |-> err, messages |-> msgs]
IngestionProcessed(msgs) ==
  [kind |-> "dict", processed |-> 1, skipped |-> 0, error |-> <<>>, messages |-> msgs]

NoToolResult == [kind |-> "none", success |-> FALSE, error |-> <<>>, ingestion |-> IngestionAbsent]

\* upload_result.get('error', 'Unknown error')
GetError(res) == IF res.error = <<>> THEN <<"Unknown", "error">> ELSE res.error

Event(o, e) == [o EXCEPT !.trace = Append(@, e)]

IdleOp ==
  [pc |-> "idle", caller |-> "none", content_id |-> NoId, create_result |-> NoResult,
   result |-> NoResult, tool_result |-> NoToolResult, msgs |-> <<>>, successful |-> FALSE,
   lookup |-> "none", created_id |-> NoId, trace |-> <<>>]

\* ------------------------------------------------- the upload-and-ingest tools
\* _process_single_file_for_ingestion up to the first status line
IngestEnter(o) ==
  IF ~fileExists
  THEN [o EXCEPT !.pc = "done",
          !.tool_result = [kind |-> "dict", success |-> TRUE, error |-> <<>>,
                           ingestion |-> IngestionFailed(<<"File", "not", "found">>, <<>>)]]
  ELSE IF ~IsPdf(inp.file.name)
  THEN [o EXCEPT !.pc = "done",
          !.tool_result = [kind |-> "dict", success |-> TRUE, error |-> <<>>,
                           ingestion |-> IngestionSkipped]]
  ELSE [Event(o, "process_pdf_and_stream") EXCEPT
          !.pc = "ingest", !.msgs = <<>>, !.successful = FALSE]

\* the error prefix a tool puts before the utils error
ToolErrorPrefix(t) ==
  IF Entry(t) = "create" THEN <<"Create/upload", "failed", ":">> ELSE <<"Upload", "failed", ":">>

\* a file of another type is left without an ingestion result
ToolReturn_NoSkipMarker(o, res) ==
  LET r == [o EXCEPT !.result = res]
  IN IF ~WithIngest(inp.tool)
     THEN [r EXCEPT !.pc = "done",
             !.tool_result = [kind |-> "dict", success |-> res.success, error |-> res.error,
                              ingestion |-> IngestionAbsent]]
     ELSE IF ~res.success
     THEN [r EXCEPT !.pc = "done",
             !.tool_result = [kind |-> "dict", success |-> FALSE,
                              error |-> ToolErrorPrefix(inp.tool) \o GetError(res),
                              ingestion |-> IngestionNone]]
     ELSE IF IsPdf(inp.file.name)
     THEN IngestEnter(r)
     ELSE [r EXCEPT !.pc = "done",
             !.tool_result = [kind |-> "dict", success |-> TRUE, error |-> <<>>,
                              ingestion |-> IngestionNone]]

\* the upload result is not looked at before the ingestion
ToolReturn_IngestAfterFailedUpload(o, res) ==
  LET r == [o EXCEPT !.result = res]
  IN IF ~WithIngest(inp.tool)
     THEN [r EXCEPT !.pc = "done",
             !.tool_result = [kind |-> "dict", success |-> res.success, error |-> res.error,
                              ingestion |-> IngestionAbsent]]
     ELSE IF IsPdf(inp.file.name)
     THEN IngestEnter(r)
     ELSE [r EXCEPT !.pc = "done",
             !.tool_result = [kind |-> "dict", success |-> TRUE, error |-> <<>>,
                              ingestion |-> IngestionSkipped]]

\* the tool's code after its utils method returned res
ToolReturn(o, res) ==
  LET r == [o EXCEPT !.result = res]
  IN IF ~WithIngest(inp.tool)
     THEN [r EXCEPT !.pc = "done",
             !.tool_result = [kind |-> "dict", success |-> res.success, error |-> res.error,
                              ingestion |-> IngestionAbsent]]
     ELSE IF ~res.success
     THEN [r EXCEPT !.pc = "done",
             !.tool_result = [kind |-> "dict", success |-> FALSE,
                              error |-> ToolErrorPrefix(inp.tool) \o GetError(res),
                              ingestion |-> IngestionNone]]
     ELSE IF IsPdf(inp.file.name)
     THEN IngestEnter(r)
     ELSE [r EXCEPT !.pc = "done",
             !.tool_result = [kind |-> "dict", success |-> TRUE, error |-> <<>>,
                              ingestion |-> IngestionSkipped]]

\* ------------------------------------------------------------ ConfluenceUtils
\* create_page_and_upload_file is entered: its first call is create_page
CreatePageAndUploadFileEnter(o) ==
  [Event(o, "create_page") EXCEPT !.pc = "cp_lookup"]

\* upload_file_to_page_or_create after upload_file_to_page_by_title returned
UploadFileToPageOrCreateAfter(o, res) ==
  IF ~res.success /\ Contains(LowerSeq(res.error), <<"not", "found">>)
  THEN CreatePageAndUploadFileEnter(o)
  ELSE ToolReturn(o, [res EXCEPT !.created = "false"])

\* upload_file_to_page_by_title returns res to its caller
UploadFileToPageByTitleReturn(o, res) ==
  IF Entry(inp.tool) = "or_create"
  THEN UploadFileToPageOrCreateAfter(o, res)
  ELSE ToolReturn(o, res)

\* the failed upload result is returned as it is, without the page
CreatePageAndUploadFileCombine_DropsPage(o, res) ==
  IF o.caller = "cpu_exist"
  THEN ToolReturn(o, [res EXCEPT !.created = "false", !.existed = TRUE])
  ELSE IF res.success
  THEN ToolReturn(o, [Success(o.create_result.target_id) EXCEPT
                        !.created = "true", !.nested = TRUE])
  ELSE ToolReturn(o, res)

\* create_page_and_upload_file after upload_file_to_content returned
CreatePageAndUploadFileCombine(o, res) ==
  IF o.caller = "cpu_exist"
  THEN ToolReturn(o, [res EXCEPT !.created = "false", !.existed = TRUE])
  ELSE IF res.success
  THEN ToolReturn(o, [Success(o.create_result.target_id) EXCEPT
                        !.created = "true", !.nested = TRUE])
  ELSE ToolReturn(o, [Fail(<<"Page", "created", "but", "upload", "failed", ":">> \o GetError(res),
                           o.create_result.target_id) EXCEPT
                        !.created = "true", !.nested = TRUE, !.nested_error = res.error])

\* upload_file_to_content returns res to its caller
UploadFileToContentReturn(o, res) ==
  CASE o.caller = "direct" -> ToolReturn(o, res)
    [] o.caller = "by_title" -> UploadFileToPageByTitleReturn(o, res)
    [] OTHER -> CreatePageAndUploadFileCombine(o, res)

\* the size check with >= for >
UploadFileToContentEnter_AtCeiling(o, id, from) ==
  LET r == [o EXCEPT !.caller = from, !.content_id = id]
  IN IF ~fileExists
     THEN UploadFileToContentReturn(r, Fail(<<"File", "not", "found", ":">> \o inp.file.name, id))
     ELSE IF inp.file.size >= ConfluenceMaxSize
     THEN UploadFileToContentReturn(r, Fail(<<"File", "too", "large">>, id))
     ELSE [r EXCEPT !.pc = "ufc_get"]

\* upload_file_to_content up to its first external call
UploadFileToContentEnter(o, id, from) ==
  LET r == [o EXCEPT !.caller = from, !.content_id = id]
  IN IF ~fileExists
     THEN UploadFileToContentReturn(r, Fail(<<"File", "not", "found", ":">> \o inp.file.name, id))
     ELSE IF inp.file.size > ConfluenceMaxSize
     THEN UploadFileToContentReturn(r, Fail(<<"File", "too", "large">>, id))
     ELSE [r EXCEPT !.pc = "ufc_get"]

\* every failure of create_page is taken for an existing page
CreatePageAndUploadFileAfterCreate_AlwaysUploads(o, cr) ==
  LET r == [o EXCEPT !.create_result = cr]
  IN IF ~cr.success
     THEN UploadFileToContentEnter(r, cr.target_id, "cpu_exist")
     ELSE UploadFileToContentEnter(r, cr.target_id, "cpu_new")

\* create_page_and_upload_file after create_page returned cr
CreatePageAndUploadFileAfterCreate(o, cr) ==
  LET r == [o EXCEPT !.create_result = cr]
  IN IF ~cr.success
     THEN IF Contains(cr.error, <<"already", "exists">>) /\ cr.target_id # NoId
          THEN UploadFileToContentEnter(r, cr.target_id, "cpu_exist")
          ELSE ToolReturn(r, cr)
     ELSE UploadFileToContentEnter(r, cr.target_id, "cpu_new")


\* ------------------------------------------------------------------ JiraUtils
\* the tokens on which str.isdigit() is true
DigitTokens == {"123", "200", "30", "1", "2", "3"}

\* len(s.split('-')) for a token sequence in which '-' is a token of its own
SplitCount(s) == Cardinality({i \in 1..Len(s) : s[i] = "-"}) + 1

\* '-' in s and len(s.split('-')) == 2 and number_part.isdigit()
LooksLikeIssueKey(s) ==
  /\ \E i \in 1..Len(s) : s[i] = "-"
  /\ SplitCount(s) = 2
  /\ LET d == RFind(s, "-")
     IN /\ d < Len(s)
        /\ \A j \in (d+1)..Len(s) : s[j] \in DigitTokens

\* create_issue_and_upload_file is entered: its first call is create_issue
CreateIssueAndUploadFileEnter(o) ==
  [Event(o, "create_issue") EXCEPT !.pc = "ci_project"]

\* upload_file_to_issue_or_create after upload_file_to_issue returned
UploadFileToIssueOrCreateAfter(o, res) ==
  IF res.success
  THEN ToolReturn(o, [res EXCEPT !.created = "false"])
  ELSE IF ~Contains(LowerSeq(res.error), <<"not", "found">>)
  THEN ToolReturn(o, res)
  ELSE CreateIssueAndUploadFileEnter(o)

\* create_issue_and_upload_file after upload_file_to_issue returned
CreateIssueAndUploadFileCombine(o, res) ==
  IF o.caller = "cpu_exist"
  THEN ToolReturn(o, [res EXCEPT !.created = "false", !.existed = TRUE])
  ELSE IF res.success
  THEN ToolReturn(o, [Success(o.create_result.target_id) EXCEPT
                        !.created = "true", !.nested = TRUE])
  ELSE ToolReturn(o, [Fail(<<"Issue", "created", "but", "upload", "failed", ":">> \o GetError(res),
                           o.create_result.target_id) EXCEPT
                        !.created = "true", !.nested = TRUE, !.nested_error = res.error])

\* upload_file_to_issue returns res to its caller
UploadFileToIssueReturn(o, res) ==
  CASE o.caller = "direct" -> ToolReturn(o, res)
    [] o.caller = "oc_key" -> UploadFileToIssueOrCreateAfter(o, res)
    [] OTHER -> CreateIssueAndUploadFileCombine(o, res)

\* upload_file_to_issue up to its first external call
UploadFileToIssueEnter(o, id, from) ==
  LET r == [o EXCEPT !.caller = from, !.content_id = id]
  IN IF ~fileExists
     THEN UploadFileToIssueReturn(r, Fail(<<"File", "not", "found", ":">> \o inp.file.name, id))
     ELSE IF inp.file.size > JiraMaxSize
     THEN UploadFileToIssueReturn(r, Fail(<<"File", "too", "large">>, id))
     ELSE [r EXCEPT !.pc = "ufi_get"]

\* create_issue_and_upload_file after create_issue returned cr
CreateIssueAndUploadFileAfterCreate(o, cr) ==
  LET r == [o EXCEPT !.create_result = cr]
  IN IF ~cr.success
     THEN IF Contains(cr.error, <<"already", "exists">>) /\ cr.target_id # NoId
          THEN UploadFileToIssueEnter(r, cr.target_id, "cpu_exist")
          ELSE ToolReturn(r, cr)
     ELSE UploadFileToIssueEnter(r, cr.target_id, "cpu_new")

\* ------------------------------------------------------------- the API server
\* the MCP endpoints in the order initialize_agents waits for them, and the
\* agents in the order it creates them
Endpoints == <<"jira", "confluence", "sharepoint", "local_pdf">>
AgentOrder == <<"confluence", "jira", "sharepoint", "local_pdf">>
WaitTimeout == 10

NoSession == <<>>
IdleBoot ==
  [pc |-> "idle", port |-> 1, elapsed |-> 0, accepted |-> {}, agents |-> <<>>, error |-> <<>>]
IdleChat ==
  [pc |-> "idle", n |-> 0, now |-> 1, message |-> <<>>, session_id |-> NoSession,
   ready |-> FALSE, raised |-> FALSE, transcript |-> <<>>,
   status |-> 0, success |-> FALSE, response |-> <<>>]

\* a value handed to serialize_response, and what it returns: kind is dict,
\* list, prim (str, int, float, bool, None), model (has dict() and
\* model_dump()), v1model (has dict() only), object (has __dict__), other
\* (none of these), badrepr (as other, and its __str__ and __repr__ raise) or
\* str (the text str() returned); items are the values, the elements, what
\* model_dump() returns, or the attributes
Value(k, its) == [kind |-> k, items |-> its]
None == Value("prim", <<>>)

NoPath == <<>>
IdleSave ==
  [pc |-> "idle", turn |-> 0, response |-> None, session_id |-> NoSession, path |-> NoPath,
   error |-> <<>>]

\* the 'ingestion_result' of a batch tool: 'processed', 'failed' (-1 when the
\* key is absent) and 'error'
NoBatchIngestion == [kind |-> "absent", processed |-> 0, failed |-> -1, error |-> <<>>]
\* what a batch tool call ended with: a dict returned or an exception raised
NoBatchResult ==
  [kind |-> "none", success |-> FALSE, error |-> <<>>, downloaded |-> 0,
   ingestion |-> NoBatchIngestion]
IdleBatch ==
  [pc |-> "idle", tool |-> "none", cleanup |-> FALSE, all |-> FALSE, items |-> <<>>,
   files |-> <<>>, i |-> 1,
   processed |-> <<>>, failed |-> <<>>, rmdir |-> "none", result |-> NoBatchResult]
NoDir == [exists |-> FALSE, holds |-> {}]

\* what the actions of the tools and of the server leave alone
\* run_all_servers.py: the names of SERVERS
SERVERS ==
  <<"Jira MCP Server", "Confluence MCP Server", "SharePoint MCP Server",
    "Google Drive MCP Server", "Local PDF MCP Server", "API Server">>
\* the runner before main: no process spawned, running_processes = []
IdleRunner ==
  [pc |-> "idle", i |-> 1, procs |-> [k \in 1..Len(SERVERS) |-> "none"],
   running_processes |-> <<>>, ready |-> {}, unready |-> {}, terminated |-> {},
   interrupted |-> FALSE, exit |-> "none", code |-> -1]

Rest == <<save, files, saved, batch, dir, runner>>
\* no transcript is being saved, none was
SaveIdle ==
  /\ save = IdleSave
  /\ files = {}
  /\ saved = <<>>
\* no batch tool call is running
BatchIdle ==
  /\ batch = IdleBatch
  /\ dir = NoDir
\* the runner is not started
RunnerIdle == runner = IdleRunner
RestInit ==
  /\ SaveIdle
  /\ BatchIdle
  /\ RunnerIdle

Server == <<supervisor, agents_initialized, boot, chat, calls, Rest>>
\* the globals of api_server.py after the import
ApiInit ==
  /\ supervisor = "None"
  /\ agents_initialized = FALSE
  /\ boot = IdleBoot
  /\ chat = IdleChat
  /\ calls = <<>>
ServerInit ==
  /\ ApiInit
  /\ RestInit

\* ---------------------------------------------------------------- initial state
Inputs ==
  { i \in [src : {"confluence", "jira"}, tool : ConfluenceTools \cup JiraTools,
           arg : {<<"p1">>, PageTitle, KeyArg, SummaryArg, DashArg},
           file : [name : FileNames, size : FileSizes], cleanup : BOOLEAN] :
      \/ /\ i.src = "confluence"
         /\ i.tool \in ConfluenceTools
         /\ i.arg = IF Entry(i.tool) = "direct" THEN <<"p1">> ELSE PageTitle
      \/ /\ i.src = "jira"
         /\ i.tool \in JiraTools
         /\ i.arg \in CASE Entry(i.tool) = "direct" -> {KeyArg}
                        [] Entry(i.tool) = "create" -> {SummaryArg}
                        [] OTHER -> {KeyArg, SummaryArg, DashArg} }

Init ==
  /\ inp \in Inputs
  /\ scopeOk \in BOOLEAN
  /\ targets \in IF inp.src = "confluence" THEN {{}, {PageP1}} ELSE {{}, {IssueI1}}
  /\ scopeOk \/ targets = {}
  /\ fileExists \in BOOLEAN
  /\ fileExists \/ inp.file.size = 1
  /\ envDone = FALSE
  /\ run = 1
  /\ op = IdleOp
  /\ ServerInit

Ids(ts) == {t.id : t \in ts}


\* the tool is a create-or-upload operation
Composite == Entry(inp.tool) \in {"create", "or_create"}

\* what only the tool call changes
World == <<inp, scopeOk, targets, fileExists, envDone, run, Server>>

\* ------------------------------------------------------------------- actions
\* the agent calls the Confluence tool inp.tool
ConfluenceToolCall ==
  /\ op.pc = "idle"
  /\ inp.src = "confluence"
  /\ op' = CASE Entry(inp.tool) = "direct" -> UploadFileToContentEnter(op, inp.arg, "direct")
             [] Entry(inp.tool) = "create" -> CreatePageAndUploadFileEnter(op)
             [] OTHER -> [op EXCEPT !.pc = "bt_lookup"]
  /\ UNCHANGED World

\* upload_file_to_page_by_title: confluence_client.get_content_by_title
ByTitleGetContentByTitle ==
  /\ op.pc = "bt_lookup"
  /\ \E out \in {Ok} \cup ExcTexts :
       LET o == Event(op, "T:get_content_by_title")
       IN IF out # Ok
          THEN op' = UploadFileToPageByTitleReturn([o EXCEPT !.lookup = "raised"],
                        Fail(<<"Upload", "failed", ":">> \o out, NoId))
          ELSE IF targets = {}
          THEN op' = UploadFileToPageByTitleReturn([Event(o, "missing") EXCEPT !.lookup = "missing"],
                        Fail(<<"Page", "not", "found", ":">> \o PageTitle, NoId))
          ELSE \E t \in targets :
                 op' = UploadFileToContentEnter([o EXCEPT !.lookup = "found"], t.id, "by_title")
  /\ UNCHANGED World

\* upload_file_to_content: confluence_client.get_content
GetContent ==
  /\ op.pc = "ufc_get"
  /\ \E out \in {Ok} \cup ExcTexts :
       LET o == Event(op, "T:get_content")
       IN IF out = Ok /\ op.content_id \in Ids(targets)
          THEN op' = [o EXCEPT !.pc = "ufc_put"]
          ELSE op' = UploadFileToContentReturn(Event(o, "missing"),
                        Fail(<<"Content", "not", "found", ":">> \o op.content_id, op.content_id))
  /\ UNCHANGED World

\* upload_file_to_content: confluence_client.upload_attachment and the result check
UploadAttachment ==
  /\ op.pc = "ufc_put"
  /\ \E out \in {Ok, Empty} \cup ExcTexts :
       LET o == Event(op, "T:upload_attachment")
       IN op' = UploadFileToContentReturn(o,
                  CASE out = Ok -> Success(op.content_id)
                    [] out = Empty -> Fail(<<"Upload", "failed", "-", "no", "response",
                                               "from", "server">>, op.content_id)
                    [] OTHER -> Fail(<<"Upload", "failed", ":">> \o out, op.content_id))
  /\ UNCHANGED World

\* create_page: confluence_client.get_content_by_title
CreatePageGetContentByTitle ==
  /\ op.pc = "cp_lookup"
  /\ \E out \in {Ok} \cup ExcTexts :
       LET o == Event(op, "T:get_content_by_title")
       IN IF out # Ok
          THEN op' = CreatePageAndUploadFileAfterCreate(o,
                        Fail(<<"Failed", "to", "create", "page", ":">> \o out, NoId))
          ELSE IF targets = {}
          THEN op' = [Event(o, "missing") EXCEPT !.pc = "cp_space"]
          ELSE \E t \in targets :
                 op' = CreatePageAndUploadFileAfterCreate(o,
                          Fail(<<"Page", "with", "title">> \o PageTitle \o
                               <<"already", "exists", "in", "space">>, t.id))
  /\ UNCHANGED World

\* create_page: confluence_client.get_space
GetSpace ==
  /\ op.pc = "cp_space"
  /\ \E out \in {Ok} \cup ExcTexts :
       LET o == Event(op, "T:get_space")
       IN IF out = Ok /\ scopeOk
          THEN op' = [o EXCEPT !.pc = "cp_create"]
          ELSE op' = CreatePageAndUploadFileAfterCreate(o,
                        Fail(<<"Space", "not", "found", "or", "not", "accessible">>, NoId))
  /\ UNCHANGED World

\* create_page: confluence_client.create_page; the server refuses a second
\* page with the title
CreatePageRequest ==
  /\ op.pc = "cp_create"
  /\ \E out \in {Ok} \cup ExcTexts :
       LET o == Event(op, "T:create_page")
       IN IF targets # {}
          THEN /\ op' = CreatePageAndUploadFileAfterCreate(o,
                           Fail(<<"Failed", "to", "create", "page", ":">> \o E400, NoId))
               /\ targets' = targets
          ELSE IF out # Ok
          THEN /\ op' = CreatePageAndUploadFileAfterCreate(o,
                           Fail(<<"Failed", "to", "create", "page", ":">> \o out, NoId))
               /\ targets' = targets
          ELSE /\ op' = CreatePageAndUploadFileAfterCreate(
                           [o EXCEPT !.created_id = PageNew(run).id],
                           [Success(PageNew(run).id) EXCEPT !.created = "true"])
               /\ targets' = targets \cup {PageNew(run)}
  /\ UNCHANGED <<inp, scopeOk, fileExists, envDone, run, Server>>

\* the agent calls the Jira tool inp.tool
JiraToolCall ==
  /\ op.pc = "idle"
  /\ inp.src = "jira"
  /\ op' = CASE Entry(inp.tool) = "direct" -> UploadFileToIssueEnter(op, inp.arg, "direct")
             [] Entry(inp.tool) = "create" -> CreateIssueAndUploadFileEnter(op)
             [] OTHER -> IF LooksLikeIssueKey(inp.arg)
                         THEN UploadFileToIssueEnter(op, inp.arg, "oc_key")
                         ELSE CreateIssueAndUploadFileEnter(op)
  /\ UNCHANGED World

\* upload_file_to_issue: jira_client.get_issue
GetIssue ==
  /\ op.pc = "ufi_get"
  /\ \E out \in {Ok} \cup ExcTexts :
       LET found == out = Ok /\ op.content_id \in Ids(targets)
           o == [Event(op, "T:get_issue") EXCEPT
                   !.lookup = IF op.caller = "oc_key"
                              THEN (IF found THEN "found" ELSE "missing") ELSE @]
       IN IF found
          THEN op' = [o EXCEPT !.pc = "ufi_put"]
          ELSE op' = UploadFileToIssueReturn(Event(o, "missing"),
                        Fail(<<"Issue", "not", "found", ":">> \o op.content_id, op.content_id))
  /\ UNCHANGED World

\* upload_file_to_issue: jira_client.upload_attachment and the result check
UploadAttachmentToIssue ==
  /\ op.pc = "ufi_put"
  /\ \E out \in {Ok, Empty} \cup ExcTexts :
       LET o == Event(op, "T:upload_attachment")
       IN op' = UploadFileToIssueReturn(o,
                  CASE out = Ok -> Success(op.content_id)
                    [] out = Empty -> Fail(<<"Upload", "failed", "-", "no", "response",
                                               "from", "server">>, op.content_id)
                    [] OTHER -> Fail(<<"Upload", "failed", ":">> \o out, op.content_id))
  /\ UNCHANGED World

\* create_issue: jira_client.get_project
GetProject ==
  /\ op.pc = "ci_project"
  /\ \E out \in {Ok} \cup ExcTexts :
       LET o == Event(op, "T:get_project")
       IN IF out = Ok /\ scopeOk
          THEN op' = [o EXCEPT !.pc = "ci_search"]
          ELSE op' = CreateIssueAndUploadFileAfterCreate(o,
                        Fail(<<"Project", "not", "found", "or", "not", "accessible">>, NoId))
  /\ UNCHANGED World

\* create_issue: jira_client.search_issues and the loop over its issues
SearchIssues ==
  /\ op.pc = "ci_search"
  /\ \E out \in {Ok} \cup ExcTexts :
       LET o == Event(op, "T:search_issues")
           same == {t \in SearchResult(targets, inp.arg) : LowerSeq(t.title) = LowerSeq(inp.arg)}
       IN IF out # Ok
          THEN op' = CreateIssueAndUploadFileAfterCreate(o,
                        Fail(<<"Failed", "to", "create", "issue", ":">> \o out, NoId))
          ELSE IF same = {}
          THEN op' = [Event(o, "missing") EXCEPT !.pc = "ci_create"]
          ELSE \E t \in same :
                 op' = CreateIssueAndUploadFileAfterCreate(o,
                          Fail(<<"Issue", "with", "summary">> \o inp.arg \o
                               <<"already", "exists">>, t.id))
  /\ UNCHANGED World

\* create_issue: jira_client.create_issue
CreateIssueRequest ==
  /\ op.pc = "ci_create"
  /\ \E out \in {Ok} \cup ExcTexts :
       LET o == Event(op, "T:create_issue")
           new == IssueNew(run, inp.arg)
       IN IF out # Ok
          THEN /\ op' = CreateIssueAndUploadFileAfterCreate(o,
                           Fail(<<"Failed", "to", "create", "issue", ":">> \o out, NoId))
               /\ targets' = targets
          ELSE /\ op' = CreateIssueAndUploadFileAfterCreate(
                           [o EXCEPT !.created_id = new.id],
                           [Success(new.id) EXCEPT !.created = "true"])
               /\ targets' = targets \cup {new}
  /\ UNCHANGED <<inp, scopeOk, fileExists, envDone, run, Server>>


\* ----------------------------------------- _process_single_file_for_ingestion
\* the tool returns with the ingestion result ir
IngestReturn(o, ir) ==
  [o EXCEPT !.pc = "done",
     !.tool_result = [kind |-> "dict", success |-> TRUE, error |-> <<>>, ingestion |-> ir]]

\* the code after the for loop; the file is unlinked by the action that uses it
IngestAfterLoop(o, ok, msgs) ==
  IF ok
  THEN IngestReturn([o EXCEPT !.trace = IF inp.cleanup THEN Append(@, "unlink") ELSE @],
                    IngestionProcessed(LastN(msgs, KeepMessages)))
  ELSE IngestReturn(o, IngestionFailed(<<"PDF", "processing", "failed">>,
                                       LastN(msgs, KeepMessages)))

\* the scan goes on after a line with "Error"
ScanLine_NoBreak(ok, m) ==
  IF Contains(m, <<"Added">>) /\ Contains(m, <<"chunks">>)
  THEN [successful |-> TRUE, stop |-> FALSE]
  ELSE IF Contains(m, <<"already", "ingested">>)
  THEN [successful |-> TRUE, stop |-> FALSE]
  ELSE IF Contains(m, <<"Error">>)
  THEN [successful |-> FALSE, stop |-> FALSE]
  ELSE [successful |-> ok, stop |-> FALSE]

\* the loop body for one status line: the new flag, and whether the loop breaks
ScanLine(ok, m) ==
  IF Contains(m, <<"Added">>) /\ Contains(m, <<"chunks">>)
  THEN [successful |-> TRUE, stop |-> FALSE]
  ELSE IF Contains(m, <<"already", "ingested">>)
  THEN [successful |-> TRUE, stop |-> FALSE]
  ELSE IF Contains(m, <<"Error">>)
  THEN [successful |-> FALSE, stop |-> TRUE]
  ELSE [successful |-> ok, stop |-> FALSE]

\* one pass of the for loop, for the status line m
YieldStep(o, m) ==
  LET sc == ScanLine(o.successful, m)
      r == [Event(o, "ingest") EXCEPT !.msgs = Append(@, m), !.successful = sc.successful]
  IN IF sc.stop THEN IngestAfterLoop(r, r.successful, r.msgs) ELSE r

\* process_pdf_and_stream yields the next status line
StreamYield ==
  /\ op.pc = "ingest"
  /\ Len(op.msgs) < MaxStream
  /\ \E m \in Lines : op' = YieldStep(op, m)
  /\ UNCHANGED World

\* the unlink outside the success branch
StreamEnd_AlwaysUnlinks ==
  /\ op.pc = "ingest"
  /\ op' = IngestAfterLoop(op, op.successful, op.msgs)
  /\ fileExists' = IF inp.cleanup THEN FALSE ELSE fileExists
  /\ UNCHANGED <<inp, scopeOk, targets, envDone, run, Server>>

\* process_pdf_and_stream is exhausted: the code after the loop, with the unlink
\* (Path.unlink of the file that exists() has just found removes it)
StreamEnd ==
  /\ op.pc = "ingest"
  /\ op' = IngestAfterLoop(op, op.successful, op.msgs)
  /\ fileExists' = IF op.successful /\ inp.cleanup THEN FALSE ELSE fileExists
  /\ UNCHANGED <<inp, scopeOk, targets, envDone, run, Server>>

\* the import or the generator raises: the except clause of the function
StreamRaise ==
  /\ op.pc = "ingest"
  /\ \E e \in ExcTexts :
       op' = IngestReturn(op, IngestionFailed(<<"Processing", "failed", ":">> \o e, <<>>))
  /\ UNCHANGED World

\* ------------------------------------------------------------ the environment
\* another actor creates the target the tool call is about
EnvCreateTarget ==
  /\ ~envDone
  /\ scopeOk
  /\ op.pc \notin {"idle", "done"}
  /\ IF inp.src = "confluence"
     THEN /\ targets = {}
          /\ targets' = {PageEnv}
     ELSE targets' = targets \cup {IssueEnv(inp.arg)}
  /\ envDone' = TRUE
  /\ UNCHANGED <<inp, scopeOk, fileExists, run, op, Server>>

\* between two calls somebody files an issue that mentions the summary
EnvFileMatching ==
  /\ inp.src = "jira"
  /\ scopeOk
  /\ op.pc = "done"
  /\ \E k \in 1..MaxOthers :
       /\ IssueOther(run, k, inp.arg) \notin targets
       /\ \A j \in 1..(k-1) : IssueOther(run, j, inp.arg) \in targets
       /\ targets' = targets \cup {IssueOther(run, k, inp.arg)}
  /\ UNCHANGED <<inp, scopeOk, fileExists, envDone, run, op, Server>>

\* the agent calls the same tool again with the same arguments
Retry ==
  /\ op.pc = "done"
  /\ run < MaxRuns
  /\ run' = run + 1
  /\ op' = IdleOp
  /\ UNCHANGED <<inp, scopeOk, targets, fileExists, envDone, Server>>

Next ==
  \/ ConfluenceToolCall
  \/ ByTitleGetContentByTitle
  \/ GetContent
  \/ UploadAttachment
  \/ CreatePageGetContentByTitle
  \/ GetSpace
  \/ CreatePageRequest
  \/ JiraToolCall
  \/ GetIssue
  \/ UploadAttachmentToIssue
  \/ GetProject
  \/ SearchIssues
  \/ CreateIssueRequest
  \/ StreamYield
  \/ StreamEnd
  \/ StreamRaise
  \/ EnvCreateTarget
  \/ Retry

Spec == Init /\ [][Next]_vars

\* ------------------------------------- the upload-and-ingest tools, long streams
\* one call of an upload-and-ingest tool with a small file report.pdf, the
\* collaborator yielding up to MaxScan lines, among them a line that carries a
\* success marker and "Error"
InitIngest ==
  /\ Init
  /\ WithIngest(inp.tool)
  /\ inp.file = [name |-> <<"r", ".", "p", "d", "f">>, size |-> 1]
  /\ fileExists

\* process_pdf_and_stream yields the next status line of a longer stream
ScanYield ==
  /\ op.pc = "ingest"
  /\ Len(op.msgs) < MaxScan
  /\ \E m \in ScanLines : op' = YieldStep(op, m)
  /\ UNCHANGED World

NextIngest ==
  \/ ConfluenceToolCall
  \/ ByTitleGetContentByTitle
  \/ GetContent
  \/ UploadAttachment
  \/ CreatePageGetContentByTitle
  \/ GetSpace
  \/ CreatePageRequest
  \/ JiraToolCall
  \/ GetIssue
  \/ UploadAttachmentToIssue
  \/ GetProject
  \/ SearchIssues
  \/ CreateIssueRequest
  \/ ScanYield
  \/ StreamEnd
  \/ StreamRaise

SpecIngest == InitIngest /\ [][NextIngest]_vars

\* ------------------------------------------- a composite tool called again
\* calls of a create-or-upload tool with a small file report.pdf, repeated with
\* the same arguments, others filing issues in between
InitRetry ==
  /\ Init
  /\ Composite
  /\ inp.file = [name |-> <<"r", ".", "p", "d", "f">>, size |-> 1]
  /\ fileExists
  /\ ~inp.cleanup

NextRetry ==
  \/ ConfluenceToolCall
  \/ ByTitleGetContentByTitle
  \/ GetContent
  \/ UploadAttachment
  \/ CreatePageGetContentByTitle
  \/ GetSpace
  \/ CreatePageRequest
  \/ JiraToolCall
  \/ GetIssue
  \/ UploadAttachmentToIssue
  \/ GetProject
  \/ SearchIssues
  \/ CreateIssueRequest
  \/ StreamYield
  \/ StreamEnd
  \/ StreamRaise
  \/ EnvCreateTarget
  \/ EnvFileMatching
  \/ Retry

SpecRetry == InitRetry /\ [][NextRetry]_vars


\* ------------------------------------------------- api_server.py: startup
Tools == <<inp, scopeOk, targets, fileExists, envDone, run, op>>

\* startup_event calls initialize_agents
StartupEvent ==
  /\ boot.pc = "idle"
  /\ boot' = [boot EXCEPT !.pc = IF agents_initialized THEN "done" ELSE "wait"]
  /\ UNCHANGED <<Tools, Rest, supervisor, agents_initialized, chat, calls>>

\* str(e) of the TimeoutError of wait_for_server
TimeoutText(endpoint) == <<"MCP", "server", "at", endpoint, "did", "not", "respond">>

\* every connection attempt is taken for a success
WaitForServer_IgnoresResult ==
  /\ boot.pc = "wait"
  /\ boot' = IF boot.port < Len(Endpoints)
             THEN [boot EXCEPT !.port = @ + 1, !.elapsed = 0]
             ELSE [boot EXCEPT !.pc = "create"]
  /\ UNCHANGED <<Tools, Rest, supervisor, agents_initialized, chat, calls>>

\* one pass of the loop of wait_for_server: connect_ex, and the sleep and the
\* loop test after a refused attempt (the attempt and the sleep take d seconds)
WaitForServer ==
  /\ boot.pc = "wait"
  /\ \E result \in {"accepted", "refused"}, d \in {1, 2} :
       IF result = "accepted"
       THEN boot' = IF boot.port < Len(Endpoints)
                    THEN [boot EXCEPT !.accepted = @ \cup {Endpoints[boot.port]},
                                      !.port = @ + 1, !.elapsed = 0]
                    ELSE [boot EXCEPT !.accepted = @ \cup {Endpoints[boot.port]},
                                      !.pc = "create"]
       ELSE IF boot.elapsed + d < WaitTimeout
       THEN boot' = [boot EXCEPT !.elapsed = @ + d]
       ELSE boot' = [boot EXCEPT !.elapsed = @ + d, !.pc = "failed",
                                 !.error = TimeoutText(Endpoints[boot.port])]
  /\ UNCHANGED <<Tools, Rest, supervisor, agents_initialized, chat, calls>>

\* create_confluence_agent, create_jira_agent, create_sharepoint_agent,
\* create_local_pdf_agent, one after the other
CreateAgent ==
  /\ boot.pc = "create"
  /\ \E out \in {Ok} \cup ExcTexts :
       LET a == AgentOrder[Len(boot.agents) + 1]
       IN IF out # Ok
          THEN boot' = [boot EXCEPT !.pc = "failed", !.error = out]
          ELSE boot' = [boot EXCEPT !.agents = Append(@, a),
                          !.pc = IF Len(boot.agents) + 1 = Len(AgentOrder) THEN "compile" ELSE @]
  /\ UNCHANGED <<Tools, Rest, supervisor, agents_initialized, chat, calls>>

\* create_supervisor(...).compile() and agents_initialized = True
CreateSupervisor ==
  /\ boot.pc = "compile"
  /\ \E out \in {Ok} \cup ExcTexts :
       IF out # Ok
       THEN /\ boot' = [boot EXCEPT !.pc = "failed", !.error = out]
            /\ UNCHANGED <<supervisor, agents_initialized>>
       ELSE /\ boot' = [boot EXCEPT !.pc = "done"]
            /\ supervisor' = "compiled"
            /\ agents_initialized' = TRUE
  /\ UNCHANGED <<Tools, Rest, chat, calls>>

\* --------------------------------------------------- api_server.py: POST /chat
UserMessages == {<<"upload", "r.pdf", "to", "PROJ-123">>, <<"list", "spaces">>}
SessionIds == {NoSession, <<"s1">>}
\* f"session_{datetime.now().strftime('%Y%m%d_%H%M%S')}" at second t
GeneratedSessionId(t) == <<"session_", ToString(t)>>

\* the messages of a transcript
Human(m) == [type |-> "human", name |-> "none", content |-> m]
AgentMessages ==
  { [type |-> "ai", name |-> "supervisor", content |-> <<"The", "file", "is", "uploaded">>],
    [type |-> "ai", name |-> "jira_agent", content |-> <<"Uploaded", "r.pdf">>],
    [type |-> "ai", name |-> "jira_agent", content |-> <<"Now", "Transferring", "back">>],
    [type |-> "ai", name |-> "jira_agent",
     content |-> <<"Transferring", "back", "to", "supervisor">>],
    [type |-> "ai", name |-> "confluence_agent",
     content |-> <<"Successfully", "transferred", "to", "confluence_agent">>],
    [type |-> "tool", name |-> "transfer_to_jira_agent",
     content |-> <<"Successfully", "transferred", "to", "jira_agent">>] }
\* response['messages']: the user's message and what the turn added
Transcripts(m) ==
  { <<Human(m)>> \o t : t \in UNION {[1..n -> AgentMessages] : n \in 0..MaxTranscript} }

\* str.startswith
StartsWith(s, prefix) == Len(s) >= Len(prefix) /\ SubSeq(s, 1, Len(prefix)) = prefix

\* the test without msg.name != 'supervisor'
IsFinal_AnyAi(msg) ==
  /\ msg.type = "ai"
  /\ ~StartsWith(msg.content, <<"Transferring", "back">>)
  /\ ~StartsWith(msg.content, <<"Successfully", "transferred">>)

\* the condition of the loop over reversed(response['messages'])
IsFinal(msg) ==
  /\ msg.type = "ai"
  /\ msg.name # "supervisor"
  /\ ~StartsWith(msg.content, <<"Transferring", "back">>)
  /\ ~StartsWith(msg.content, <<"Successfully", "transferred">>)

\* the loop over reversed(msgs), from position i down: the position it breaks
\* at, 0 when it ends without a break
RECURSIVE ReversedScan(_, _)
ReversedScan(msgs, i) ==
  IF i = 0 THEN 0
  ELSE IF IsFinal(msgs[i]) THEN i
  ELSE ReversedScan(msgs, i - 1)

FinalMessage(msgs) ==
  LET i == ReversedScan(msgs, Len(msgs))
  IN IF i = 0 THEN msgs[Len(msgs)] ELSE msgs[i]

\* the handler calls the supervisor although it is not initialized
ChatRequest_NoGuard ==
  /\ chat.pc \in {"idle", "replied"}
  /\ chat.n < MaxRequests
  /\ \E m \in UserMessages, sid \in SessionIds, t \in {chat.now, chat.now + 1} :
       LET c == [IdleChat EXCEPT !.n = chat.n + 1, !.now = t, !.message = m,
                                 !.ready = agents_initialized /\ supervisor # "None",
                                 !.session_id = IF sid = NoSession THEN GeneratedSessionId(t) ELSE sid]
       IN /\ chat' = [c EXCEPT !.pc = "invoke"]
          /\ calls' = Append(calls, [session_id |-> c.session_id, input |-> <<m>>,
                                     answered |-> FALSE])
  /\ UNCHANGED <<Tools, Rest, supervisor, agents_initialized, boot>>

\* chat_with_agent up to supervisor.ainvoke: the 503, the session id, the call
\* with the request's message
ChatRequest ==
  /\ chat.pc \in {"idle", "replied"}
  /\ chat.n < MaxRequests
  /\ \E m \in UserMessages, sid \in SessionIds, t \in {chat.now, chat.now + 1} :
       LET c == [IdleChat EXCEPT !.n = chat.n + 1, !.now = t, !.message = m,
                                 !.ready = agents_initialized /\ supervisor # "None"]
           id == IF sid = NoSession THEN GeneratedSessionId(t) ELSE sid
       IN IF ~agents_initialized \/ supervisor = "None"
          THEN /\ chat' = [c EXCEPT !.pc = "replied", !.status = 503]
               /\ calls' = calls
          ELSE /\ chat' = [c EXCEPT !.pc = "invoke", !.session_id = id]
               /\ calls' = Append(calls, [session_id |-> id, input |-> <<m>>,
                                          answered |-> FALSE])
  /\ UNCHANGED <<Tools, Rest, supervisor, agents_initialized, boot>>

\* supervisor.ainvoke raises: the except clause answers 500
SupervisorRaises ==
  /\ chat.pc = "invoke"
  /\ chat' = [chat EXCEPT !.pc = "replied", !.raised = TRUE, !.status = 500]
  /\ UNCHANGED <<Tools, Rest, supervisor, agents_initialized, boot, calls>>

\* supervisor.ainvoke returns the transcript: the final message is picked and
\* the ChatResponse returned; response['messages'][-1] of an empty list raises
\* IndexError, which the except clause answers with 500
SupervisorReturns ==
  /\ chat.pc = "invoke"
  /\ \E tr \in Transcripts(chat.message) \cup {<<>>} :
       IF tr = <<>>
       THEN /\ chat' = [chat EXCEPT !.pc = "replied", !.raised = TRUE, !.status = 500]
            /\ calls' = calls
       ELSE /\ chat' = [chat EXCEPT !.pc = "replied", !.transcript = tr, !.status = 200,
                                    !.success = TRUE, !.response = FinalMessage(tr).content]
            /\ calls' = [calls EXCEPT ![Len(calls)].answered = TRUE]
  /\ UNCHANGED <<Tools, Rest, supervisor, agents_initialized, boot>>

\* no tool call is running
ToolsIdle ==
  /\ inp = [src |-> "jira", tool |-> "upload_file_to_issue", arg |-> KeyArg,
            file |-> [name |-> <<"r", ".", "p", "d", "f">>, size |-> 1], cleanup |-> FALSE]
  /\ scopeOk = TRUE
  /\ targets = {}
  /\ fileExists = TRUE
  /\ envDone = FALSE
  /\ run = 1
  /\ op = IdleOp

InitApi ==
  /\ ServerInit
  /\ ToolsIdle

NextApi ==
  \/ StartupEvent
  \/ WaitForServer
  \/ CreateAgent
  \/ CreateSupervisor
  \/ ChatRequest
  \/ SupervisorRaises
  \/ SupervisorReturns

SpecApi == InitApi /\ [][NextApi]_vars

\* ------------------------------------- api_server.py: save_response_to_file
Str == Value("str", <<>>)
Leaves == {None, Value("other", <<>>), Value("badrepr", <<>>), Value("v1model", <<>>)}
Nested == {Value(k, <<l>>) : k \in {"dict", "list", "object", "model"}, l \in Leaves}
\* the dict supervisor.ainvoke returns: 'messages' and its list
Responses ==
  { Value("dict", <<Value("list", ms)>>) :
      ms \in UNION {[1..n -> Leaves \cup Nested] : n \in 0..MaxItems} }

\* str(obj) raises: the object's __repr__ raises, or it is shown with the repr
\* of such an object (dict, list and pydantic models show their items)
RECURSIVE StrRaises(_)
StrRaises(v) ==
  CASE v.kind = "badrepr" -> TRUE
    [] v.kind \in {"dict", "list", "model", "v1model"} ->
         \E i \in 1..Len(v.items) : StrRaises(v.items[i])
    [] OTHER -> FALSE

\* what a call of serialize_response does: raise, or return out
Raised == [raised |-> TRUE, out |-> None]
Returned(v) == [raised |-> FALSE, out |-> v]
\* return str(obj), in the else branch and in the except clause
StrFallback(v) == IF StrRaises(v) THEN Raised ELSE Returned(Str)

RECURSIVE serialize_response(_)
serialize_response(obj) ==
  CASE obj.kind \in {"dict", "list"} ->
         LET rs == [i \in 1..Len(obj.items) |-> serialize_response(obj.items[i])]
         IN IF \E i \in 1..Len(rs) : rs[i].raised
            THEN StrFallback(obj)
            ELSE Returned(Value(obj.kind, [i \in 1..Len(rs) |-> rs[i].out]))
    [] obj.kind \in {"prim", "str"} -> Returned(obj)
    [] obj.kind = "model" -> Returned(Value("dict", obj.items))
    [] obj.kind = "v1model" -> StrFallback(obj)
    [] obj.kind = "object" ->
         LET r == serialize_response(Value("dict", obj.items))
         IN IF r.raised THEN StrFallback(obj) ELSE r
    [] OTHER -> StrFallback(obj)

\* json.dump accepts the value: dicts, lists, primitives and strings throughout
RECURSIVE JsonSerializable(_)
JsonSerializable(v) ==
  CASE v.kind \in {"prim", "str"} -> TRUE
    [] v.kind \in {"dict", "list"} -> \A i \in 1..Len(v.items) : JsonSerializable(v.items[i])
    [] OTHER -> FALSE

\* str(e) of the exceptions save_response_to_file catches
EOs == <<"No", "space", "left", "on", "device">>
ENotSerializable == <<"Object", "is", "not", "JSON", "serializable">>
ERepr == <<"__repr__", "raised">>

\* f"api_response_{session_id}_{timestamp}.json" with the timestamp of second t
FilePath(session_id, t) == <<"api_response_">> \o session_id \o <<"_", ToString(t), ".json">>

\* open(filepath, "w") creates the file or empties the one that is there
Opened(fs, path, turn) ==
  {f \in fs : f.path # path} \cup {[path |-> path, turn |-> turn, content |-> "empty"]}
Written(fs, path, turn, c) ==
  {f \in fs : f.path # path} \cup {[path |-> path, turn |-> turn, content |-> c]}

\* save_response_to_file(response, session_id) is called
SaveResponseToFile ==
  /\ save.pc = "called"
  /\ save' = [save EXCEPT !.pc = "makedirs"]
  /\ UNCHANGED <<Tools, supervisor, agents_initialized, boot, chat, calls, files, saved, batch, dir, runner>>

\* os.makedirs(responses_dir, exist_ok=True)
SaveMakedirs ==
  /\ save.pc = "makedirs"
  /\ \E out \in {Ok, EOs} :
       save' = IF out = Ok THEN [save EXCEPT !.pc = "open"]
               ELSE [save EXCEPT !.pc = "returned", !.error = out]
  /\ UNCHANGED <<Tools, supervisor, agents_initialized, boot, chat, calls, files, saved, batch, dir, runner>>

\* the timestamp is read, the file name built, the file opened for writing
SaveOpen ==
  /\ save.pc = "open"
  /\ \E out \in {Ok, EOs}, t \in {chat.now, chat.now + 1} :
       LET path == FilePath(save.session_id, t)
       IN /\ chat' = [chat EXCEPT !.now = t]
          /\ IF out = Ok
             THEN /\ save' = [save EXCEPT !.pc = "dump", !.path = path]
                  /\ files' = Opened(files, path, save.turn)
             ELSE /\ save' = [save EXCEPT !.pc = "returned", !.path = path, !.error = out]
                  /\ files' = files
  /\ UNCHANGED <<Tools, supervisor, agents_initialized, boot, calls, saved, batch, dir, runner>>

\* json.dump(serialize_response(response), f, indent=4), the file is closed
SaveDump ==
  /\ save.pc = "dump"
  /\ LET r == serialize_response(save.response)
     IN IF r.raised
        THEN /\ save' = [save EXCEPT !.pc = "returned", !.error = ERepr]
             /\ UNCHANGED <<files, saved>>
        ELSE IF ~JsonSerializable(r.out)
        THEN /\ save' = [save EXCEPT !.pc = "returned", !.error = ENotSerializable]
             /\ files' = Written(files, save.path, save.turn, "partial")
             /\ saved' = saved
        ELSE \E out \in {Ok, EOs} :
               IF out = Ok
               THEN /\ save' = [save EXCEPT !.pc = "returned"]
                    /\ files' = Written(files, save.path, save.turn, "json")
                    /\ saved' = Append(saved, [turn |-> save.turn, path |-> save.path])
               ELSE /\ save' = [save EXCEPT !.pc = "returned", !.error = out]
                    /\ files' = Written(files, save.path, save.turn, "partial")
                    /\ saved' = saved
  /\ UNCHANGED <<Tools, supervisor, agents_initialized, boot, chat, calls, batch, dir, runner>>

\* the server after a successful startup
ServerReady ==
  /\ supervisor = "compiled"
  /\ agents_initialized = TRUE
  /\ boot = [IdleBoot EXCEPT !.pc = "done", !.port = Len(Endpoints),
                             !.accepted = {Endpoints[i] : i \in 1..Len(Endpoints)},
                             !.agents = AgentOrder]
  /\ chat = IdleChat
  /\ calls = <<>>

\* one call of save_response_to_file with a response of any shape
InitSerialize ==
  /\ ToolsIdle
  /\ ServerReady
  /\ \E r \in Responses :
       save = [IdleSave EXCEPT !.pc = "called", !.turn = 1, !.response = r,
                               !.session_id = <<"s1">>]
  /\ files = {}
  /\ saved = <<>>
  /\ BatchIdle
  /\ RunnerIdle

NextSerialize ==
  \/ SaveResponseToFile
  \/ SaveMakedirs
  \/ SaveOpen
  \/ SaveDump

SpecSerialize == InitSerialize /\ [][NextSerialize]_vars

\* ------------------------------------ api_server.py: the transcript of a turn
\* the dict supervisor.ainvoke returned for the transcript tr: its messages are
\* pydantic objects with string fields
TurnResponse(tr) ==
  Value("dict", <<Value("list", [k \in 1..Len(tr) |-> Value("model", <<Str>>)])>>)

\* background_tasks.add_task(save_response_to_file, response, session_id): the
\* task of the answered turn starts once the reply is sent
AddTask ==
  /\ chat.pc = "replied"
  /\ chat.success
  /\ save.pc \in {"idle", "returned"}
  /\ save.turn # chat.n
  /\ save' = [IdleSave EXCEPT !.pc = "called", !.turn = chat.n,
                              !.response = TurnResponse(chat.transcript),
                              !.session_id = chat.session_id]
  /\ UNCHANGED <<Tools, supervisor, agents_initialized, boot, chat, calls, files, saved, batch, dir, runner>>

\* the server after startup answers chat turns and saves their transcripts
InitSave ==
  /\ ToolsIdle
  /\ ServerReady
  /\ RestInit
  /\ files = {}
  /\ saved = <<>>

NextSave ==
  \/ ChatRequest
  \/ SupervisorRaises
  \/ SupervisorReturns
  \/ AddTask
  \/ SaveResponseToFile
  \/ SaveMakedirs
  \/ SaveOpen
  \/ SaveDump

SpecSave == InitSave /\ [][NextSave]_vars

\* --------------------------------------------- the download-and-ingest tools
NameA == <<"a", ".", "p", "d", "f">>
NameB == <<"b", ".", "P", "D", "F">>
NameC == <<"c", ".", "p", "n", "g">>
BatchNames == {NameA, NameB, NameC}
\* an attachment of the content item, a file name or a path requested: its
\* name, whether it is there (the attachment has a download link, the library
\* holds the file, the path exists) and whether its download succeeds
Items == [name : BatchNames, there : BOOLEAN, ok : BOOLEAN]
ItemLists ==
  { its \in UNION {[1..n -> Items] : n \in 1..MaxFiles} :
      \A i, j \in 1..Len(its) : i # j => its[i].name # its[j].name }

\* the status lines process_pdf_and_stream yields for one file
Streams == UNION {[1..n -> Lines] : n \in 0..MaxStream}

\* str(e) of the exceptions of the constructor and of the import
ECredentials == <<"Missing", "Confluence", "credentials", "in", "environment", "variables">>
EImport == <<"No", "module", "named", "utility">>

NotBatch == <<Tools, supervisor, agents_initialized, boot, chat, calls, save, files, saved, runner>>

\* the loop body of SharePoint and local_pdf for one status line
ScanLineLower(ok, m) ==
  IF Contains(m, <<"Added">>) /\ Contains(m, <<"chunks">>)
  THEN [successful |-> TRUE, stop |-> FALSE]
  ELSE IF Contains(LowerSeq(m), <<"already", "ingested">>)
  THEN [successful |-> TRUE, stop |-> FALSE]
  ELSE IF Contains(m, <<"Error">>) \/ Contains(m, <<"Failed">>)
  THEN [successful |-> FALSE, stop |-> TRUE]
  ELSE [successful |-> ok, stop |-> FALSE]

\* the for loop over the status lines ms: processing_successful after it
RECURSIVE ScanStream(_, _, _)
ScanStream(tool, ok, ms) ==
  IF ms = <<>> THEN ok
  ELSE LET sc == IF tool = "confluence" THEN ScanLine(ok, Head(ms))
                 ELSE ScanLineLower(ok, Head(ms))
       IN IF sc.stop THEN sc.successful ELSE ScanStream(tool, sc.successful, Tail(ms))

\* the local path of a download: name_1.ext when the name is taken
FreeName(holds, name) ==
  IF name \notin holds THEN name
  ELSE LET i == RFind(name, ".")
       IN SubSeq(name, 1, i - 1) \o <<"_1">> \o SubSeq(name, i, Len(name))

\* results['downloaded'] / len(downloaded_files)
Downloaded(fs) == Cardinality({k \in 1..Len(fs) : fs[k].download_success})

\* the tool raises Exception(f"Failed to ...: {str(e)}")
BatchRaise(b, e) ==
  [b EXCEPT !.pc = "done",
     !.result = [NoBatchResult EXCEPT !.kind = "raised", !.error = <<"Failed", "to", ":">> \o e]]
\* the tool returns a dict
BatchReturn(b, ok, err, ing) ==
  [b EXCEPT !.pc = "done",
     !.result = [kind |-> "dict", success |-> ok, error |-> err,
                 downloaded |-> Downloaded(b.files), ingestion |-> ing]]
\* {'processed': len(processed_files), 'failed': len(failed_files), ...}
BatchCounts(b) ==
  [kind |-> "dict", processed |-> Len(b.processed), failed |-> Len(b.failed), error |-> <<>>]
\* {'processed': 0, 'error': ...}
BatchError(err) == [kind |-> "dict", processed |-> 0, failed |-> -1, error |-> err]

\* list_spaces: ConfluenceUtils() and confluence_client.get_spaces
ListSpaces ==
  /\ batch.pc = "called"
  /\ batch.tool = "list_spaces"
  /\ \E out \in {Ok, ECredentials} \cup ExcTexts :
       batch' = IF out = Ok THEN BatchReturn(batch, TRUE, <<>>, NoBatchIngestion)
                ELSE BatchRaise(batch, out)
  /\ UNCHANGED <<NotBatch, dir>>

\* download_and_ingest_content_attachments: ConfluenceUtils()
DownloadAndIngestContentAttachments ==
  /\ batch.pc = "called"
  /\ batch.tool = "confluence"
  /\ \E out \in {Ok, ECredentials} :
       batch' = IF out = Ok THEN [batch EXCEPT !.pc = "attachments"]
                ELSE BatchRaise(batch, out)
  /\ UNCHANGED <<NotBatch, dir>>

\* download_content_attachments: get_content_attachments and download_dir.mkdir
DownloadContentAttachments ==
  /\ batch.pc = "attachments"
  /\ \E out \in {Ok} \cup ExcTexts :
       IF out # Ok
       THEN /\ batch' = BatchRaise(batch, out)
            /\ dir' = dir
       ELSE /\ batch' = [batch EXCEPT !.pc = "download", !.i = 1]
            /\ dir' = [dir EXCEPT !.exists = TRUE]
  /\ UNCHANGED NotBatch

\* download_content_attachments: the loop body for one attachment; after the
\* last one the tool returns when nothing was downloaded
DownloadAttachment ==
  /\ batch.pc = "download"
  /\ LET it == batch.items[batch.i]
         path == IF it.there THEN FreeName(dir.holds, it.name) ELSE <<>>
         ok == it.there /\ it.ok
         b == [batch EXCEPT !.i = @ + 1,
                 !.files = Append(@, [title |-> it.name, local_path |-> path,
                                      download_success |-> ok])]
     IN /\ dir' = IF ok THEN [dir EXCEPT !.holds = @ \cup {path}] ELSE dir
        /\ batch' = IF batch.i < Len(batch.items) THEN b
                    ELSE IF Downloaded(b.files) = 0
                    THEN BatchReturn(b, TRUE, <<>>, [NoBatchIngestion EXCEPT !.kind = "None"])
                    ELSE [b EXCEPT !.pc = "import", !.i = 1]
  /\ UNCHANGED NotBatch

\* _process_content_files_for_ingestion up to its loop: the import and the
\* test of the download path
ProcessContentFilesImport ==
  /\ batch.pc = "import"
  /\ batch.tool = "confluence"
  /\ \E out \in {Ok, EImport} :
       batch' = IF out # Ok
                THEN BatchReturn(batch, TRUE, <<>>,
                                 BatchError(<<"Processing", "failed", ":">> \o out))
                ELSE IF ~dir.exists
                THEN BatchReturn(batch, TRUE, <<>>,
                                 BatchError(<<"Download", "path", "not", "found">>))
                ELSE [batch EXCEPT !.pc = "file"]
  /\ UNCHANGED <<NotBatch, dir>>

\* the code after the loop of _process_content_files_for_ingestion
ProcessContentFilesAfterLoop(b) ==
  IF b.cleanup /\ b.processed # <<>> /\ b.failed = <<>>
  THEN [b EXCEPT !.pc = "rmdir"]
  ELSE BatchReturn(b, TRUE, <<>>, BatchCounts(b))

\* _process_content_files_for_ingestion: the loop body for one file, with the
\* status lines st of process_pdf_and_stream or its exception; a file that is
\* not on disk is not ingested
ProcessContentFile ==
  /\ batch.pc = "file"
  /\ batch.tool = "confluence"
  /\ \E st \in Streams, exc \in BOOLEAN :
       LET f == batch.files[batch.i]
           onDisk == f.local_path \in dir.holds
           ok == ScanStream("confluence", FALSE, st)
           unlinked == ok /\ ~exc /\ IsPdf(f.local_path) /\ batch.cleanup
           b == IF ~IsPdf(f.local_path) \/ exc \/ ~ok
                THEN [batch EXCEPT !.failed = Append(@, f.local_path)]
                ELSE IF batch.cleanup /\ ~onDisk
                THEN [batch EXCEPT !.processed = Append(@, f.local_path),
                                   !.failed = Append(@, f.local_path)]
                ELSE [batch EXCEPT !.processed = Append(@, f.local_path)]
       IN /\ (~onDisk /\ IsPdf(f.local_path)) => (exc \/ ~ok)
          /\ dir' = IF unlinked THEN [dir EXCEPT !.holds = @ \ {f.local_path}] ELSE dir
          /\ batch' = IF batch.i < Len(batch.files) THEN [b EXCEPT !.i = @ + 1]
                      ELSE ProcessContentFilesAfterLoop(b)
  /\ UNCHANGED NotBatch

\* _process_content_files_for_ingestion: download_path.rmdir(), OSError passed
ProcessContentFilesRmdir ==
  /\ batch.pc = "rmdir"
  /\ batch.tool = "confluence"
  /\ \E out \in {Ok, EOs} :
       LET removed == out = Ok /\ dir.holds = {}
           b == [batch EXCEPT !.rmdir = IF removed THEN "removed" ELSE "failed"]
       IN /\ dir' = IF removed THEN NoDir ELSE dir
          /\ batch' = BatchReturn(b, TRUE, <<>>, BatchCounts(b))
  /\ UNCHANGED NotBatch

\* str.endswith
EndsWith(s, suffix) ==
  Len(s) >= Len(suffix) /\ SubSeq(s, Len(s) - Len(suffix) + 1, Len(s)) = suffix

\* the except clause of download_and_ingest_sharepoint_files / ingest_local_pdfs
PipelineFailed(b, e) ==
  BatchReturn(b, FALSE, IF b.tool = "sharepoint"
                        THEN <<"Download", "and", "ingestion", "failed", ":">> \o e
                        ELSE <<"Ingestion", "failed", ":">> \o e, NoBatchIngestion)

\* download_and_ingest_sharepoint_files: download_path.mkdir(exist_ok=True)
DownloadAndIngestSharepointFiles ==
  /\ batch.pc = "called"
  /\ batch.tool = "sharepoint"
  /\ \E out \in {Ok, EOs} :
       IF out # Ok
       THEN /\ batch' = PipelineFailed(batch, out)
            /\ dir' = dir
       ELSE /\ batch' = [batch EXCEPT !.pc = IF batch.all THEN "download_all" ELSE "download_one",
                                      !.i = 1]
            /\ dir' = [dir EXCEPT !.exists = TRUE]
  /\ UNCHANGED NotBatch

\* the code after the downloads
SharepointAfterDownload(b) ==
  IF b.files = <<>>
  THEN BatchReturn(b, FALSE, <<"No", "files", "were", "downloaded">>, NoBatchIngestion)
  ELSE [b EXCEPT !.pc = "import", !.i = 1]

\* the loop body for one of file_names: download_specific_sharepoint_file, which
\* returns None when it fails
SharepointDownloadFile ==
  /\ batch.pc = "download_one"
  /\ LET it == batch.items[batch.i]
         got == EndsWith(LowerSeq(it.name), <<".", "p", "d", "f">>) /\ it.there /\ it.ok
         b == [batch EXCEPT !.i = @ + 1,
                 !.files = IF got
                           THEN Append(@, [title |-> it.name, local_path |-> it.name,
                                           download_success |-> TRUE])
                           ELSE @]
     IN /\ dir' = IF got THEN [dir EXCEPT !.holds = @ \cup {it.name}] ELSE dir
        /\ batch' = IF batch.i < Len(batch.items) THEN b ELSE SharepointAfterDownload(b)
  /\ UNCHANGED NotBatch

\* the PDF files of the library that download_pdfs_from_sharepoint brings
LibraryPdfs(its) ==
  SelectSeq(its, LAMBDA it : EndsWith(LowerSeq(it.name), <<".", "p", "d", "f">>)
                               /\ it.there /\ it.ok)

\* file_names is None: download_pdfs_from_sharepoint
SharepointDownloadAll ==
  /\ batch.pc = "download_all"
  /\ \E out \in {Ok} \cup ExcTexts :
       IF out # Ok
       THEN /\ batch' = BatchReturn(batch, FALSE, <<"Download", "failed", ":">> \o out,
                                    NoBatchIngestion)
            /\ dir' = dir
       ELSE LET got == LibraryPdfs(batch.items)
                b == [batch EXCEPT !.files =
                        [k \in 1..Len(got) |-> [title |-> got[k].name, local_path |-> got[k].name,
                                                download_success |-> TRUE]]]
            IN /\ dir' = [dir EXCEPT !.holds = @ \cup {got[k].name : k \in 1..Len(got)}]
               /\ batch' = SharepointAfterDownload(b)
  /\ UNCHANGED NotBatch

\* from utility.pdf_processor1 import process_pdf_and_stream
SharepointImport ==
  /\ batch.pc = "import"
  /\ batch.tool = "sharepoint"
  /\ \E out \in {Ok, EImport} :
       batch' = IF out # Ok THEN PipelineFailed(batch, out) ELSE [batch EXCEPT !.pc = "file"]
  /\ UNCHANGED <<NotBatch, dir>>

\* the code after the ingestion loop of download_and_ingest_sharepoint_files
SharepointAfterLoop(b) ==
  IF b.cleanup /\ b.processed # <<>>
  THEN [b EXCEPT !.pc = "rmdir"]
  ELSE BatchReturn(b, TRUE, <<>>, BatchCounts(b))

\* the loop body for one downloaded file
SharepointFile ==
  /\ batch.pc = "file"
  /\ batch.tool = "sharepoint"
  /\ \E st \in Streams, exc \in BOOLEAN :
       LET f == batch.files[batch.i]
           onDisk == f.local_path \in dir.holds
           ok == ScanStream("sharepoint", FALSE, st)
           b == IF ~onDisk \/ exc \/ ~ok
                THEN [batch EXCEPT !.failed = Append(@, f.title)]
                ELSE [batch EXCEPT !.processed = Append(@, f.local_path)]
       IN /\ dir' = IF onDisk /\ ~exc /\ ok /\ batch.cleanup
                    THEN [dir EXCEPT !.holds = @ \ {f.local_path}] ELSE dir
          /\ batch' = IF batch.i < Len(batch.files) THEN [b EXCEPT !.i = @ + 1]
                      ELSE SharepointAfterLoop(b)
  /\ UNCHANGED NotBatch

\* step 3: download_path.iterdir() and, for an empty folder, download_path.rmdir();
\* an exception is printed
SharepointCleanup ==
  /\ batch.pc = "rmdir"
  /\ batch.tool = "sharepoint"
  /\ \E out \in {Ok, EOs} :
       LET removed == out = Ok /\ dir.holds = {}
           b == [batch EXCEPT !.rmdir = CASE removed -> "removed"
                                          [] dir.holds = {} \/ out # Ok -> "failed"
                                          [] OTHER -> "none"]
       IN /\ dir' = IF removed THEN NoDir ELSE dir
          /\ batch' = BatchReturn(b, TRUE, <<>>, BatchCounts(b))
  /\ UNCHANGED NotBatch

\* ingest_local_pdfs with file_paths: the paths that exist and are PDFs
IngestLocalPdfs ==
  /\ batch.pc = "called"
  /\ batch.tool = "local"
  /\ LET got == SelectSeq(batch.items, LAMBDA it : it.there /\ IsPdf(it.name))
         b == [batch EXCEPT !.files =
                 [k \in 1..Len(got) |-> [title |-> got[k].name, local_path |-> got[k].name,
                                         download_success |-> TRUE]]]
     IN batch' = IF got = <<>>
                 THEN BatchReturn(b, FALSE, <<"No", "PDF", "files", "found", "to", "ingest">>,
                                  NoBatchIngestion)
                 ELSE [b EXCEPT !.pc = "import", !.i = 1]
  /\ UNCHANGED <<NotBatch, dir>>

\* from utility.pdf_processor1 import process_pdf_and_stream
LocalImport ==
  /\ batch.pc = "import"
  /\ batch.tool = "local"
  /\ \E out \in {Ok, EImport} :
       batch' = IF out # Ok THEN PipelineFailed(batch, out) ELSE [batch EXCEPT !.pc = "file"]
  /\ UNCHANGED <<NotBatch, dir>>

\* the loop body of ingest_local_pdfs for one file
LocalFile ==
  /\ batch.pc = "file"
  /\ batch.tool = "local"
  /\ \E st \in Streams, exc \in BOOLEAN :
       LET f == batch.files[batch.i]
           ok == ScanStream("local", FALSE, st)
           b == IF exc \/ ~ok
                THEN [batch EXCEPT !.failed = Append(@, f.local_path)]
                ELSE [batch EXCEPT !.processed = Append(@, f.local_path)]
       IN batch' = IF batch.i < Len(batch.files) THEN [b EXCEPT !.i = @ + 1]
                   ELSE BatchReturn(b, TRUE, <<>>, BatchCounts(b))
  /\ UNCHANGED <<NotBatch, dir>>

\* the calls of the batch tools: list_spaces; the Confluence tool for the
\* attachments of a content item; the SharePoint tool with file_names or with
\* None; ingest_local_pdfs with file_paths
BatchCalls ==
  { b \in [tool : {"list_spaces", "confluence", "sharepoint", "local"}, cleanup : BOOLEAN,
           all : BOOLEAN, items : ItemLists] :
      /\ b.tool = "list_spaces" => (b.items = <<[name |-> NameA, there |-> TRUE, ok |-> TRUE]>>
                                      /\ ~b.cleanup)
      /\ b.tool = "local" => (~b.cleanup /\ \A i \in 1..Len(b.items) : b.items[i].ok)
      /\ b.all => b.tool = "sharepoint" }

\* one call of a batch tool; the download directory may be there from an
\* earlier call, with a file the earlier call left
InitBatch ==
  /\ ToolsIdle
  /\ ApiInit
  /\ SaveIdle
  /\ \E c \in BatchCalls :
       batch = [IdleBatch EXCEPT !.pc = "called", !.tool = c.tool, !.cleanup = c.cleanup,
                                 !.all = c.all, !.items = c.items]
  /\ dir \in {NoDir, [exists |-> TRUE, holds |-> {}], [exists |-> TRUE, holds |-> {NameA}]}
  /\ batch.tool \in {"list_spaces", "local"} => dir = NoDir
  /\ RunnerIdle

NextBatch ==
  \/ ListSpaces
  \/ DownloadAndIngestContentAttachments
  \/ DownloadContentAttachments
  \/ DownloadAttachment
  \/ ProcessContentFilesImport
  \/ ProcessContentFile
  \/ ProcessContentFilesRmdir
  \/ DownloadAndIngestSharepointFiles
  \/ SharepointDownloadFile
  \/ SharepointDownloadAll
  \/ SharepointImport
  \/ SharepointFile
  \/ SharepointCleanup
  \/ IngestLocalPdfs
  \/ LocalImport
  \/ LocalFile

SpecBatch == InitBatch /\ [][NextBatch]_vars

\* --------------------------------------------------------- run_all_servers.py
NotRunner == <<Tools, supervisor, agents_initialized, boot, chat, calls, save, files, saved,
               batch, dir>>

\* the indices of running_processes
Tracked(r) == {r.running_processes[k] : k \in 1..Len(r.running_processes)}

\* the for loop of shutdown_all_servers with process.terminate()
TerminateAll(r) == [r EXCEPT !.terminated = @ \cup Tracked(r)]

\* shutdown_all_servers is entered by r: with no process it returns at once,
\* otherwise every process is sent terminate and the code sleeps
ShutdownEnter(r) ==
  IF r.running_processes = <<>>
  THEN [r EXCEPT !.pc = "done"]
  ELSE [TerminateAll(r) EXCEPT !.pc = "sleep"]

\* main after the for loop over SERVERS: return 1 with no server, and the
\* finally clause
MainAfterLoop(r) ==
  IF r.running_processes = <<>>
  THEN ShutdownEnter([r EXCEPT !.exit = "return", !.code = 1])
  ELSE [r EXCEPT !.pc = "serving"]

\* start_server returned: the next server, or the code after the loop
MainContinue(r) ==
  IF r.i < Len(SERVERS) THEN [r EXCEPT !.i = @ + 1, !.pc = "start"] ELSE MainAfterLoop(r)

\* main: the signal handlers are registered, the loop begins
Main ==
  /\ runner.pc = "idle"
  /\ runner' = [runner EXCEPT !.pc = "start"]
  /\ UNCHANGED NotRunner

\* start_server: the script is looked for and the process spawned
StartServer ==
  /\ runner.pc = "start"
  /\ \E exists \in BOOLEAN, out \in {Ok, EOs} :
       runner' = IF ~exists \/ out # Ok
                 THEN MainContinue(runner)
                 ELSE [runner EXCEPT !.procs[runner.i] = "running", !.pc = "check"]
  /\ UNCHANGED NotRunner

\* check_server_ready returns: the process is returned and appended to
\* running_processes, or it is sent terminate and waited for
CheckServerReady ==
  /\ runner.pc = "check"
  /\ \E ok \in BOOLEAN :
       runner' = IF ok
                 THEN MainContinue([runner EXCEPT !.running_processes = Append(@, runner.i),
                                                  !.ready = @ \cup {runner.i}])
                 ELSE [runner EXCEPT !.unready = @ \cup {runner.i},
                                     !.terminated = @ \cup {runner.i}, !.pc = "wait"]
  /\ UNCHANGED NotRunner

\* process.wait(timeout=5) returns, or raises TimeoutExpired and the process
\* is killed
ProcessWait ==
  /\ runner.pc = "wait"
  /\ \E exited \in BOOLEAN :
       /\ runner.procs[runner.i] = "exited" => exited
       /\ runner' = MainContinue([runner EXCEPT
                                    !.procs[runner.i] = IF exited THEN "exited" ELSE "killed"])
  /\ UNCHANGED NotRunner

\* signal_handler on SIGINT or SIGTERM: shutdown_all_servers and sys.exit(0),
\* whose SystemExit passes the except clauses and runs the finally clause
SignalHandler ==
  /\ runner.pc \in {"start", "check", "wait", "serving"}
  /\ runner' = ShutdownEnter([runner EXCEPT !.exit = "sys.exit", !.code = 0,
                                           !.interrupted = runner.pc # "serving"])
  /\ UNCHANGED NotRunner

\* an exception in the loop of main: the finally clause and return 0
MainLoopRaises ==
  /\ runner.pc = "serving"
  /\ runner' = ShutdownEnter([runner EXCEPT !.exit = "return", !.code = 0])
  /\ UNCHANGED NotRunner

\* shutdown_all_servers after time.sleep(2): a process whose poll() is None
\* is killed, running_processes is cleared
ShutdownKill ==
  /\ runner.pc = "sleep"
  /\ \E gone \in SUBSET Tracked(runner) :
       runner' = [runner EXCEPT
                    !.procs = [k \in 1..Len(SERVERS) |->
                                 IF k \in Tracked(runner) /\ runner.procs[k] = "running"
                                 THEN (IF k \in gone THEN "exited" ELSE "killed")
                                 ELSE runner.procs[k]],
                    !.running_processes = <<>>,
                    !.pc = "done"]
  /\ UNCHANGED NotRunner

\* a server process ends by itself
ProcessExits ==
  /\ runner.pc \notin {"idle", "done"}
  /\ \E k \in 1..Len(SERVERS) :
       /\ runner.procs[k] = "running"
       /\ runner' = [runner EXCEPT !.procs[k] = "exited"]
  /\ UNCHANGED NotRunner

InitRunner ==
  /\ ToolsIdle
  /\ ServerInit

NextRunner ==
  \/ Main
  \/ StartServer
  \/ CheckServerReady
  \/ ProcessWait
  \/ SignalHandler
  \/ MainLoopRaises
  \/ ShutdownKill
  \/ ProcessExits

SpecRunner == InitRunner /\ [][NextRunner]_vars

\* ------------------------------------------------------ reading the history
TransportEvents ==
  { "T:get_content_by_title", "T:get_content", "T:upload_attachment", "T:get_space",
    "T:create_page", "T:get_issue", "T:get_project", "T:search_issues", "T:create_issue" }
CreateRequests == {"T:create_page", "T:create_issue"}
CreateSteps == {"create_page", "create_issue"}

Has(tr, es) == \E i \in 1..Len(tr) : tr[i] \in es
CountOf(tr, es) == Cardinality({i \in 1..Len(tr) : tr[i] \in es})
\* the events after the first event of es
After(tr, es) ==
  IF Has(tr, es)
  THEN SubSeq(tr, (CHOOSE i \in 1..Len(tr) : tr[i] \in es /\ \A j \in 1..(i-1) : tr[j] \notin es) + 1,
              Len(tr))
  ELSE <<>>

MaxSize == IF inp.src = "confluence" THEN ConfluenceMaxSize ELSE JiraMaxSize
Done == op.pc = "done"

\* ------------------------------------------------------------------- claims

\* C1 (as stated): in a run of upload_file_to_page_or_create /
\* upload_file_to_issue_or_create whose target lookup found the target, no
\* create request is sent to the external system.
C1_NoCreateAfterLookupFound ==
  (Entry(inp.tool) = "or_create" /\ op.lookup = "found") => ~Has(op.trace, CreateRequests)

\* C2 (as stated): with a local file larger than the ceiling of the source, a
\* composite upload operation makes no external call at all.
C2_OversizeMakesNoTransportCall ==
  (fileExists /\ inp.file.size > MaxSize) => ~Has(op.trace, TransportEvents)


\* C3: a file larger than the ceiling of the source is refused without a
\* transfer and the upload reports success = false; a file of exactly the
\* ceiling is never refused as too large and upload_file_to_content /
\* upload_file_to_issue goes on to its first external call.
C3_SizeCeiling ==
  /\ (fileExists /\ inp.file.size > MaxSize)
       => /\ ~Has(op.trace, {"T:upload_attachment"})
          /\ (Done => ~op.result.success)
  /\ inp.file.size <= MaxSize => op.result.error # <<"File", "too", "large">>
  /\ (Done /\ Entry(inp.tool) = "direct" /\ fileExists /\ inp.file.size = MaxSize)
       => Has(op.trace, {"T:get_content", "T:get_issue"})

C3_Witness ==
  /\ Done
  /\ inp.tool = "upload_file_to_content"
  /\ inp.file.size = ConfluenceMaxSize + 1
  /\ op.result.error = <<"File", "too", "large">>
  /\ op.trace = <<>>

\* C4 (as stated): an upload-and-ingest tool given a non-PDF file returns an
\* ingestion_result with skipped = 1 and processed = 0, whatever the upload did.
C4_NonPdfAlwaysSkipped ==
  (Done /\ WithIngest(inp.tool) /\ ~IsPdf(inp.file.name))
    => /\ op.tool_result.ingestion.kind = "dict"
       /\ op.tool_result.ingestion.skipped = 1
       /\ op.tool_result.ingestion.processed = 0

\* C4 (amended): given a non-PDF file, the ingestion_result has skipped = 1 and
\* processed = 0 when the upload succeeded, and is None when the upload failed.
C4_NonPdfSkippedAfterUpload ==
  (Done /\ WithIngest(inp.tool) /\ ~IsPdf(inp.file.name))
    => IF op.result.success
       THEN /\ op.tool_result.ingestion.kind = "dict"
            /\ op.tool_result.ingestion.skipped = 1
            /\ op.tool_result.ingestion.processed = 0
       ELSE op.tool_result.ingestion.kind = "None"

C4_Witness ==
  /\ Done
  /\ inp.tool = "upload_and_ingest_file_to_content"
  /\ inp.file.name = <<"d", ".", "p", "n", "g">>
  /\ op.result.success
  /\ op.tool_result.ingestion.skipped = 1

\* C5 (as stated): ingestion_result is populated only if the upload succeeded
\* and the file is a PDF.
C5_IngestionOnlyForUploadedPdf ==
  (Done /\ op.tool_result.ingestion.kind = "dict") => (op.result.success /\ IsPdf(inp.file.name))

\* C5 (amended): ingestion_result is populated exactly when the upload
\* succeeded; it is the outcome of an ingestion only if the file is a PDF, and
\* for an uploaded file of another type it is the skipped marker.
C5_IngestionOnlyAfterUpload ==
  (Done /\ WithIngest(inp.tool))
    => /\ op.tool_result.ingestion.kind = "dict" <=> op.result.success
       /\ op.tool_result.ingestion.kind # "dict" => op.tool_result.ingestion.kind = "None"
       /\ (op.tool_result.ingestion.kind = "dict" /\ ~IsPdf(inp.file.name))
            => op.tool_result.ingestion = IngestionSkipped
       /\ (op.tool_result.ingestion.kind = "dict" /\ op.tool_result.ingestion.skipped = 0)
            => IsPdf(inp.file.name)

C5_Witness ==
  /\ Done
  /\ inp.tool = "create_issue_and_upload_and_ingest_file"
  /\ op.result.success
  /\ IsPdf(inp.file.name)
  /\ op.tool_result.ingestion.processed = 1

\* C6: with cleanup_after_ingest and an ingestion recognised as successful the
\* local file is gone when the tool returns; the file is removed by no other
\* step, so after a failed ingestion or without cleanup it is still there.
C6_CleanupOnlyOnSuccess ==
  /\ [](Done /\ inp.cleanup /\ op.tool_result.ingestion.processed = 1 => ~fileExists)
  /\ [][fileExists /\ ~fileExists'
          => /\ inp.cleanup
             /\ op.pc = "ingest" /\ op.successful
             /\ op'.pc = "done" /\ op'.tool_result.ingestion.processed = 1]_vars
  /\ [][op.pc = "ingest" /\ op'.pc = "done" /\ fileExists
          /\ (op'.tool_result.ingestion.processed = 0 \/ ~inp.cleanup) => fileExists']_vars

C6_Witness ==
  /\ Done
  /\ inp.cleanup
  /\ op.tool_result.ingestion.processed = 1
  /\ Len(op.tool_result.ingestion.messages) = 2
  /\ ~fileExists

\* the create step returned a failure / one that names the existing target
CreateFailed == op.create_result.error # <<>> /\ ~op.create_result.success
CreateFoundExisting ==
  Contains(op.create_result.error, <<"already", "exists">>) /\ op.create_result.target_id # NoId

\* C7: when the create step fails and the failure is not that the target
\* exists, the operation returns the create step's result as it is; no
\* transfer and no ingestion follows the create step.
C7_CreateFailureIsTerminal ==
  (CreateFailed /\ ~CreateFoundExisting)
    => /\ Done
       /\ op.result = op.create_result
       /\ Contains(op.tool_result.error, op.create_result.error)
       /\ ~Has(After(op.trace, CreateSteps),
               {"T:get_content", "T:get_issue", "T:upload_attachment", "process_pdf_and_stream"})
       /\ op.tool_result.ingestion.kind # "dict"

C7_Witness ==
  /\ Done
  /\ inp.tool = "upload_file_to_page_or_create"
  /\ op.create_result.error = <<"Space", "not", "found", "or", "not", "accessible">>
  /\ op.result.error = <<"Space", "not", "found", "or", "not", "accessible">>

\* C8 (as stated): when the create step fails because the target exists by now,
\* whether the step's own check or the create request found that out, the
\* operation goes on to upload to the existing target.
C8_CreateConflictContinuesToUpload ==
  (Done /\ CreateFailed
     /\ (Contains(op.create_result.error, <<"already", "exists">>)
           \/ Contains(op.create_result.error, E400)))
    => (op.caller = "cpu_exist" /\ op.result # op.create_result)

\* C9: when the upload fails after this call created the target, the target
\* is still there and the result has success = false, the created flag and the
\* id of the created target; a failed ingestion leaves the upload reported as
\* successful; no step removes a target.
C9_NoRollback ==
  /\ []((Done /\ op.created_id # NoId /\ ~op.result.success)
          => /\ op.result.created = "true"
             /\ op.result.target_id = op.created_id
             /\ op.result.nested
             /\ ~op.tool_result.success
             /\ op.created_id \in Ids(targets))
  /\ []((Done /\ op.tool_result.ingestion.kind = "dict"
              /\ op.tool_result.ingestion.processed = 0)
          => (op.result.success /\ op.tool_result.success))
  /\ [][targets \subseteq targets']_vars

C9_Witness ==
  /\ Done
  /\ inp.tool = "create_page_and_upload_file"
  /\ op.created_id # NoId
  /\ op.result.nested_error = <<"Upload", "failed", ":">> \o E500
  /\ op.result.created = "true"

\* the extension of the file is .pdf in any case of letters
PdfExtension ==
  LET ext == Suffix(inp.file.name)
  IN /\ Len(ext) = 4
     /\ ext[1] = "." /\ ext[2] \in {"p", "P"} /\ ext[3] \in {"d", "D"} /\ ext[4] \in {"f", "F"}

\* C10: process_pdf_and_stream is called only after a successful upload of a
\* file whose extension is .pdf in any case; after a successful upload of
\* another file it is not called and ingestion_result is the skipped marker;
\* after a successful upload of a .pdf file in any case it is called.
C10_IngestOnlyPdf ==
  /\ Has(op.trace, {"process_pdf_and_stream"}) => (op.result.success /\ PdfExtension)
  /\ (Done /\ WithIngest(inp.tool) /\ op.result.success /\ ~PdfExtension)
       => /\ op.tool_result.ingestion = IngestionSkipped
          /\ ~Has(op.trace, {"process_pdf_and_stream"})
  /\ (Done /\ WithIngest(inp.tool) /\ op.result.success /\ PdfExtension)
       => Has(op.trace, {"process_pdf_and_stream"})

C10_Witness ==
  /\ Done
  /\ inp.tool = "upload_and_ingest_file_to_issue_or_create"
  /\ inp.file.name = <<"d", ".", "p", "n", "g">>
  /\ op.result.success
  /\ op.tool_result.ingestion = IngestionSkipped

\* C11: every status line consumed that contains "Error" is the last line
\* consumed: the scan has stopped at it, whatever came before and whatever else
\* the line contains, and the ingestion is reported as failed
C11_ErrorLineAbortsScan ==
  \A i \in 1..Len(op.msgs) :
    Contains(op.msgs[i], <<"Error">>) =>
      /\ i = Len(op.msgs)
      /\ op.pc = "done"
      /\ op.tool_result.ingestion.kind = "dict"
      /\ op.tool_result.ingestion.processed = 0
      /\ op.tool_result.ingestion.error # <<>>

\* the positions of the events of es, and "every event of as is before every
\* event of bs"
Pos(tr, es) == {i \in 1..Len(tr) : tr[i] \in es}
Before(tr, as, bs) == \A i \in Pos(tr, as), j \in Pos(tr, bs) : i < j

TitleLookups == {"T:get_content_by_title", "T:search_issues"}
Transfers == {"T:upload_attachment"}

\* the stages of one operation follow each other: lookup by title or summary,
\* create request, transfer, ingestion, deletion of the local file
StagesInOrder ==
  /\ Before(op.trace, TitleLookups, CreateRequests)
  /\ Before(op.trace, CreateRequests, Transfers)
  /\ Before(op.trace, Transfers, {"process_pdf_and_stream", "ingest"})
  /\ Before(op.trace, {"process_pdf_and_stream", "ingest"}, {"unlink"})

\* the last lookup by title or summary before a create request reported nothing
CreateAfterMissingLookup ==
  \A i \in Pos(op.trace, CreateRequests) :
    \E j \in Pos(op.trace, TitleLookups) :
      /\ j < i
      /\ \A k \in Pos(op.trace, TitleLookups) : k < i => k <= j
      /\ op.trace[j + 1] = "missing"

\* a transfer follows at once the lookup by id that found its target
TransferAfterTargetKnown ==
  \A i \in Pos(op.trace, Transfers) :
    /\ op.content_id # NoId
    /\ i > 1
    /\ op.trace[i - 1] \in {"T:get_content", "T:get_issue"}

\* the ingestion starts right after a transfer, and only when the upload succeeded
IngestAfterUploadSuccess ==
  \A i \in Pos(op.trace, {"process_pdf_and_stream"}) :
    /\ op.result.success
    /\ i > 1
    /\ op.trace[i - 1] \in Transfers

\* the file is deleted after the last status line, the scan having seen success
UnlinkAfterIngestSuccess ==
  \A i \in Pos(op.trace, {"unlink"}) :
    /\ op.successful
    /\ i = Len(op.trace)
    /\ op.trace[i - 1] = "ingest"

\* C12: within one operation lookup, create, transfer, ingestion and cleanup
\* happen in this order: a create request only after a lookup reported the
\* target missing, a transfer only with a known target id, the ingestion only
\* after the upload succeeded, the deletion only after the ingestion succeeded
C12_StrictStageOrder ==
  /\ StagesInOrder
  /\ CreateAfterMissingLookup
  /\ TransferAfterTargetKnown
  /\ IngestAfterUploadSuccess
  /\ UnlinkAfterIngestSuccess

\* the create request of this operation has succeeded
ThisOperationCreated == op.created_id # NoId

\* the created flag of the result is true exactly when the operation created
\* the target
CreatedFlagIffCreated ==
  (Done /\ Composite) => ((op.result.created = "true") <=> ThisOperationCreated)

\* scenario A: lookup missing, create and upload successful
ScenarioA ==
  (Done /\ Composite /\ Has(op.trace, {"missing"}) /\ ThisOperationCreated /\ op.result.success)
    => op.result.created = "true"

\* scenario B: the lookup of an or-create operation found the target
ScenarioB ==
  (Done /\ Entry(inp.tool) = "or_create" /\ op.lookup = "found")
    => /\ ~Has(op.trace, CreateSteps)
       /\ op.result.created # "true"

\* the create step found the target existing
ScenarioConflict ==
  (Done /\ Composite /\ CreateFoundExisting) => op.result.created = "false"

\* C13: the created flag (page_created / issue_created) of a composite result
\* is true if and only if the operation itself created the target: true after
\* lookup-missing, create and upload; false, with the create step skipped, after
\* lookup-found; false when the create step found the target existing
C13_CreatedFlag ==
  /\ CreatedFlagIffCreated
  /\ ScenarioA
  /\ ScenarioB
  /\ ScenarioConflict

\* the targets with the title / summary of the call that the calls have created
CreatedByCalls ==
  {t \in targets : \E n \in 1..(MaxRuns + 1) : t \in {PageNew(n), IssueNew(n, inp.arg)}}

\* calling again never creates a second target with the title / summary
NoSecondCreate == Cardinality(CreatedByCalls) <= 1

\* a transfer of a later call goes to the target an earlier call created
RetryUploadsToCreated ==
  (run > 1 /\ Has(op.trace, Transfers))
    => \A t \in CreatedByCalls : t.id # op.created_id => op.content_id = t.id

\* C14: after a composite operation created a target, the same operation called
\* again with the same scope and title / summary finds exactly the created
\* target and uploads to it; whatever the external system holds, the later call
\* creates no second target with that title / summary
C14_RetryIdempotent ==
  /\ NoSecondCreate
  /\ RetryUploadsToCreated

\* the tool has returned after a successful upload of a .pdf file whose
\* ingestion did not succeed
IngestionFailedAfterUpload ==
  /\ Done
  /\ WithIngest(inp.tool)
  /\ op.result.success
  /\ PdfExtension
  /\ op.tool_result.ingestion.processed = 0

\* the tool result is a success that carries an ingestion result with an error
FailureKeepsUpload ==
  IngestionFailedAfterUpload
    => /\ op.tool_result.success
       /\ op.tool_result.error = <<>>
       /\ op.tool_result.ingestion.kind = "dict"
       /\ op.tool_result.ingestion.error # <<>>

\* messages holds the last lines consumed, at most KeepMessages, in stream order
IsTail(ms, all) ==
  /\ Len(ms) = (IF Len(all) < KeepMessages THEN Len(all) ELSE KeepMessages)
  /\ \A i \in 1..Len(ms) : ms[i] = all[Len(all) - Len(ms) + i]
FailureReportsLastLines ==
  IngestionFailedAfterUpload => IsTail(op.tool_result.ingestion.messages, op.msgs)

\* C15: when the upload of a PDF succeeded and its ingestion failed, the tool
\* result is still a success with the upload result, and its ingestion_result
\* has processed = 0, an error, and the last status lines consumed (at most 3,
\* in stream order, the last one being the last line consumed)
C15_IngestionFailureReported ==
  /\ FailureKeepsUpload
  /\ FailureReportsLastLines

\* the positions of the messages of tr that are AI messages, not named
\* supervisor, and start neither with 'Transferring back' nor with
\* 'Successfully transferred'
Substantive(tr) ==
  {i \in 1..Len(tr) :
     /\ tr[i].type = "ai"
     /\ tr[i].name # "supervisor"
     /\ ~StartsWith(tr[i].content, <<"Transferring", "back">>)
     /\ ~StartsWith(tr[i].content, <<"Successfully", "transferred">>)}

\* C16: the response text of a successful reply is the content of the last
\* message of the transcript that is an AI message, is not the supervisor's and
\* starts neither with 'Transferring back' nor with 'Successfully
\* transferred'; when there is none, the content of the transcript's last message
C16_ResponseIsLastSubstantive ==
  (chat.pc = "replied" /\ chat.status = 200)
    => LET tr == chat.transcript
           q == Substantive(tr)
       IN chat.response = IF q = {} THEN tr[Len(tr)].content
                          ELSE tr[CHOOSE i \in q : \A j \in q : j <= i].content

\* the answer of a specialist is returned although the supervisor spoke last
C16_Witness ==
  /\ chat.pc = "replied"
  /\ chat.status = 200
  /\ Len(chat.transcript) = 3
  /\ chat.transcript[2].name = "jira_agent"
  /\ chat.transcript[3].name = "supervisor"
  /\ chat.response = <<"Uploaded", "r.pdf">>

\* C17: a request that finds agents_initialized false or the supervisor unset
\* is answered 503, and the supervisor is not called in such a state; a request
\* whose processing raised is answered 500, never with success = true
C17_Unavailable503Error500 ==
  /\ []((chat.pc = "replied" /\ ~chat.ready) => (chat.status = 503 /\ ~chat.success))
  /\ [](chat.status = 503 => ~chat.ready)
  /\ [][(~agents_initialized \/ supervisor = "None") => Len(calls') = Len(calls)]_vars
  /\ [](chat.raised => (chat.pc = "replied" /\ chat.status = 500 /\ ~chat.success))

\* a first request was answered 503 without a call of the supervisor, a second
\* one raised and was answered 500
C17_Witness ==
  /\ chat.pc = "replied"
  /\ chat.n = 2
  /\ Len(calls) = 1
  /\ chat.raised
  /\ chat.status = 500

\* wait_for_server has given up on an endpoint
TimedOut == boot.elapsed >= WaitTimeout

\* C18: an agent is constructed only after its endpoint has accepted a
\* connection; when an endpoint has not accepted one within the timeout,
\* initialize_agents fails with the error, no agent and no supervisor is
\* created and agents_initialized stays false
C18_AgentsAfterEndpoints ==
  /\ [](\A i \in 1..Len(boot.agents) : boot.agents[i] \in boot.accepted)
  /\ [](TimedOut => /\ boot.pc = "failed"
                    /\ boot.error = TimeoutText(Endpoints[boot.port])
                    /\ Endpoints[boot.port] \notin boot.accepted
                    /\ boot.agents = <<>>
                    /\ supervisor = "None"
                    /\ ~agents_initialized)
  /\ [][boot.pc = "failed" => boot' = boot]_vars

\* the third endpoint has not accepted a connection in time
C18_Witness ==
  /\ TimedOut
  /\ boot.pc = "failed"
  /\ boot.accepted = {"jira", "confluence"}
  /\ Endpoints[boot.port] = "sharepoint"

\* the earlier answered calls of the supervisor for the session of call k
EarlierOfSession(k) ==
  {j \in 1..(k - 1) : calls[j].session_id = calls[k].session_id /\ calls[j].answered}

\* C20: a request of a session is processed with the earlier turns of the same
\* session as context: the input of every call of the supervisor holds, before
\* the request's own message, the messages of the session's earlier requests,
\* one more turn with every request of the session
C20_SessionAccumulates ==
  \A k \in 1..Len(calls) :
    /\ Len(calls[k].input) > Cardinality(EarlierOfSession(k))
    /\ \A j \in EarlierOfSession(k) :
         \E i \in 1..(Len(calls[k].input) - 1) :
           calls[k].input[i] = calls[j].input[Len(calls[j].input)]

\* the call has returned with an exception caught
SaveFailed == save.pc = "returned" /\ save.error # <<>>

\* an exception raised while the transcript is saved ends the call, caught
SaveContained == save.error # <<>> => save.pc = "returned"

\* whatever the response holds, as long as every object has a string
\* representation, serialization yields a value json.dump accepts: the only
\* failures are those of the file system
SerializationTotal == (SaveFailed /\ ~StrRaises(save.response)) => save.error = EOs

\* C21: saving a transcript never raises to its caller; the serialization
\* recurses through dicts, lists and objects and turns whatever it does not
\* recognise into its string representation, so that the response is written
\* unless the file system fails
C21_SaveNeverFailsOnContent ==
  /\ SaveContained
  /\ SerializationTotal

\* C22: every invocation of a capability tool returns a structured result:
\* an exception inside the tool becomes a result with success = false and
\* the error, and is never raised to the caller.
C22_ToolsReturnStructured ==
  batch.pc = "done" =>
    /\ batch.result.kind = "dict"
    /\ batch.result.error # <<>> => ~batch.result.success

\* the names the result records as ingested or as failed
Accounted == {batch.processed[k] : k \in 1..Len(batch.processed)}
               \cup {batch.failed[k] : k \in 1..Len(batch.failed)}
\* the call returned a result with the counts of the ingestion loop
BatchCounted ==
  /\ batch.pc = "done"
  /\ batch.result.kind = "dict"
  /\ batch.result.success
  /\ batch.result.ingestion.kind = "dict"

\* C24: after a successful ingestion with cleanup the local file is deleted
\* and the download directory, when that leaves it empty, is removed too
\* unless the removal itself failed; a failed removal leaves the result as
\* it is; a directory that holds a file is never removed.
C24_CleanupRemovesEmptyDirectory ==
  /\ (BatchCounted /\ batch.cleanup) =>
       /\ \A k \in 1..Len(batch.processed) : batch.processed[k] \notin dir.holds
       /\ (batch.processed # <<>> /\ dir.exists /\ dir.holds = {}) => batch.rmdir = "failed"
  /\ (batch.pc = "done" /\ batch.rmdir = "failed") =>
       (batch.result.kind = "dict" /\ batch.result.success
          /\ batch.result.ingestion = BatchCounts(batch))

\* C28: every batch ingest result accounts for each input file once:
\* Confluence counts processed + failed = the files of the download result;
\* SharePoint and local_pdf record every requested name as ingested or as
\* failed (the result has no other list), with ingested + failed = the files
\* handed to the ingestion loop.
C28_EveryFileAccounted ==
  BatchCounted =>
    /\ batch.result.ingestion.processed + batch.result.ingestion.failed = Len(batch.files)
    /\ (batch.tool \in {"sharepoint", "local"} /\ ~batch.all) =>
         \A k \in 1..Len(batch.items) : batch.items[k].name \in Accounted

\* the error text names the lookup stage
NamesLookup(err) ==
  \/ Contains(LowerSeq(err), <<"not", "found">>)
  \/ Contains(LowerSeq(err), <<"find">>)
  \/ Contains(LowerSeq(err), <<"lookup">>)
\* the call ended because the lookup of the target raised
LookupStageFailed ==
  /\ Done
  /\ op.lookup = "raised"
  /\ ~Has(op.trace, {"create_page", "create_issue"})

\* C23: a failing outcome of a composite operation returns an explanation
\* that names the stage that failed and holds the error text of that stage:
\* a result with success = false has an error, and when the lookup of the
\* target failed the error names the lookup and holds the text of its
\* exception.
C23_FailureNamesStage ==
  (Done /\ op.tool_result.kind = "dict" /\ ~op.tool_result.success) =>
    /\ op.tool_result.error # <<>>
    /\ LookupStageFailed =>
         /\ NamesLookup(op.tool_result.error)
         /\ \E e \in ExcTexts : Contains(op.tool_result.error, e)

\* a status line with a success marker; a line with "Error" and no success marker
SuccessLine(m) ==
  (Contains(m, <<"Added">>) /\ Contains(m, <<"chunks">>)) \/ Contains(m, <<"already", "ingested">>)
ErrorLine(m) == Contains(m, <<"Error">>) /\ ~SuccessLine(m)
\* the stream holds a success line and no error line
MarkersGood(ms) ==
  /\ \E i \in 1..Len(ms) : SuccessLine(ms[i])
  /\ \A i \in 1..Len(ms) : ~ErrorLine(ms[i])
\* _process_single_file_for_ingestion has scanned the stream of an existing PDF
ScanEnded == Done /\ Has(op.trace, {"process_pdf_and_stream"})
\* the stream raised: the result of the except clause
StreamRaised ==
  /\ Len(op.tool_result.ingestion.error) >= 3
  /\ SubSeq(op.tool_result.ingestion.error, 1, 3) = <<"Processing", "failed", ":">>

\* C25 (as stated): an existing PDF is reported as processed exactly when its
\* stream holds at least one success line and no line with "Error" that is
\* not a success line.
C25_ProcessedIffMarkers ==
  ScanEnded => (op.tool_result.ingestion.processed = 1 <=> MarkersGood(op.msgs))

\* C25 (amended): the same for a stream that ends or is aborted without an
\* exception; a stream that raises is reported as failed whatever lines it
\* yielded before.
C25_ProcessedIffMarkersUnlessRaised ==
  ScanEnded =>
    IF StreamRaised
    THEN op.tool_result.ingestion.processed = 0
    ELSE op.tool_result.ingestion.processed = 1 <=> MarkersGood(op.msgs)
\* a success line followed by an error line: reported as failed
C25_Witness ==
  /\ ScanEnded
  /\ ~StreamRaised
  /\ Len(op.msgs) = 2
  /\ SuccessLine(op.msgs[1])
  /\ ErrorLine(op.msgs[2])
  /\ op.tool_result.ingestion.processed = 0

\* C26: a create-or-upload composite operation given a local file that does
\* not exist issues no create request, whether the named target is absent or
\* exists, and returns a failure.
C26_NoCreateWithoutFile ==
  (Entry(inp.tool) = "or_create" /\ ~fileExists) =>
    /\ ~Has(op.trace, CreateRequests)
    /\ Done => ~op.tool_result.success

\* C27: one call of a create-or-upload composite operation attempts the
\* transfer of the attachment at most once, whatever the outcomes of the
\* lookup, the create and the transfer.
C27_TransferAtMostOnce ==
  Entry(inp.tool) = "or_create" => CountOf(op.trace, Transfers) <= 1

\* C29: every answered turn whose transcript was written has a file of its
\* own: no two turns write the same path, so no transcript is overwritten by
\* a later turn.
C29_OwnTranscriptFile ==
  \A i, j \in 1..Len(saved) : i # j => saved[i].path # saved[j].path

\* the processes whose readiness check failed have been dealt with: sent
\* terminate, never tracked and, once the wait is over, exited or killed
UnreadyStopped ==
  \A k \in runner.unready :
    /\ k \in runner.terminated
    /\ k \notin Tracked(runner)
    /\ (runner.pc = "wait" /\ runner.i = k) \/ runner.procs[k] \in {"exited", "killed"}
\* after shutdown_all_servers
ShutdownDone ==
  runner.pc = "done" =>
    /\ runner.running_processes = <<>>
    /\ \A k \in runner.ready :
         k \in runner.terminated /\ runner.procs[k] \in {"exited", "killed"}

\* C30: a process is in running_processes only after its readiness check
\* succeeded; a server that is not ready in time is sent terminate, killed
\* when it has not exited 5 seconds later, and never tracked; main returns 1
\* when no server started; after shutdown_all_servers every tracked process
\* was sent terminate, is exited or killed, and running_processes is empty.
C30_RunnerTracksAndStops ==
  /\ Tracked(runner) \subseteq runner.ready
  /\ UnreadyStopped
  /\ (runner.pc = "done" /\ runner.exit = "return" /\ runner.ready = {}) => runner.code = 1
  /\ ShutdownDone

\* the same for the runs in which no signal arrives while the servers start
C30_Uninterrupted == runner.interrupted \/ C30_RunnerTracksAndStops


====
